---- MODULE Spec2Model ----
(***************************************************************************)
(* Model of the GrimLog competitive-source ingestion pipeline              *)
(* (scripts/youtube_transcribe.py): the truncation-tolerant JSON decode    *)
(* used by curation, and the fetch -> curate -> extract pipeline over the  *)
(* CompetitiveSource / DatasheetSource tables.                             *)
(*                                                                         *)
(* Text is a sequence of characters.  Runs of letters that the scanner     *)
(* and the parser treat alike are one symbol: "M" is the word              *)
(* mentionedUnits, "U" the word unmatchedMentions, "D" the word            *)
(* datasheetId, "a"/"b" two datasheet ids, "n" any other letter, "1" a     *)
(* digit.                                                                  *)
(***************************************************************************)
EXTENDS Integers, Sequences, FiniteSets, TLC

VARIABLES
    text,        \* decoder: the LLM response text being decoded
    origin,      \* decoder: how text was produced (entries, prefix, suffix)
    dstage,      \* decoder: "raw" | "decoded"
    decoded,     \* decoder: outcome of the decode step
    sources,     \* CompetitiveSource table: id -> [kind, status, content, errorMessage]
    links,       \* DatasheetSource table: set of rows [id, datasheetId, sourceId,
                 \* mentionSummary, status, found, confidence, updatedAt]
    nextLinkId,  \* gen_random_uuid(): the next fresh row id
    hasKey,      \* GOOGLE_API_KEY is set
    hasSttKey,   \* OPENAI_API_KEY is set
    tracing,     \* HAS_LANGFUSE and langfuse: the tracing integration is on
    cmd,         \* command of the current (or last) invocation
    pc,          \* position of the invocation
    queue,       \* rows of the running phase still to be processed
    processed,   \* extract_pending_links: processed_sources
    exits,       \* per phase of the invocation: "none", "0", "1" or "raised"
    dbFailures,  \* datastore calls that raised so far
    netOp,       \* network operation under way: which call site
    netState,    \* "idle" | "trying" | "returned" | "raised" | "recorded"
    netHistory,  \* outcome of every attempt of the operation so far
    netSlept,    \* seconds passed to time.sleep between the attempts
    netLink,     \* the DatasheetSource row an extraction call is made for
    contexts,    \* DatasheetCompetitiveContext table: set of rows
    aggLinks,    \* the DatasheetSource rows of the datasheet being aggregated
    aggRun,      \* what the last aggregation request did and returned
    video,       \* the fetch of one youtube source: position, captions, content
    stt,         \* whisper_transcribe for that source: chunks, transcripts
    locator,     \* detect_source_type: the host of the url given
    routed       \* detect_source_type: what the call came to

dvars == <<text, origin, dstage, decoded>>
tables == <<sources, links, nextLinkId>>
ctl == <<cmd, pc, queue, processed>>
pvars == <<tables, hasKey, hasSttKey, tracing, ctl, exits, dbFailures>>
nvars == <<netOp, netState, netHistory, netSlept, netLink>>
\* what the pipeline, the decoder and the network actions leave alone
avars == <<contexts, aggLinks, aggRun>>
mvars == <<video, stt>>
rvars == <<locator, routed>>
nonPipeline == <<dvars, nvars, avars, mvars, rvars>>
nonDecoder == <<pvars, nvars, avars, mvars, rvars>>
nonNet == <<dvars, pvars, avars, mvars, rvars>>
nonAgg == <<dvars, pvars, nvars, mvars, rvars>>
nonMedia == <<dvars, pvars, nvars, avars, rvars>>
nonRoute == <<dvars, pvars, nvars, avars, mvars>>

(***************************************************************************)
(* Characters                                                              *)
(***************************************************************************)
LB == "{"
RB == "}"
LK == "["
RK == "]"
CM == ","
CL == ":"
QT == "\""
BS == "\\"
SP == " "
LF == "<LF>"

\* characters that may follow a backslash in a JSON string
EscChars == {QT, BS, "n"}

Unescape(c) == IF c = "n" THEN LF ELSE c

(***************************************************************************)
(* JSON values: every value is a record of the same shape                  *)
(*   k = "obj"  : items = sequence of members (k = "pair", s = key)        *)
(*   k = "arr"  : items = sequence of values                               *)
(*   k = "str"  : s = the decoded characters                               *)
(*   k = "num"  : s = the digits                                           *)
(***************************************************************************)
NullV == [k |-> "null", s |-> <<>>, items |-> <<>>]
StrV(cs) == [k |-> "str", s |-> cs, items |-> <<>>]
NumV(cs) == [k |-> "num", s |-> cs, items |-> <<>>]
ArrV(vs) == [k |-> "arr", s |-> <<>>, items |-> vs]
ObjV(ms) == [k |-> "obj", s |-> <<>>, items |-> ms]
PairV(key, v) == [k |-> "pair", s |-> key, items |-> <<v>>]

HasKey(ms, key) == \E i \in 1..Len(ms) : ms[i].s = key

\* dict insertion: a repeated key keeps its position and takes the new value
PutMember(ms, key, v) ==
    IF HasKey(ms, key)
    THEN [i \in 1..Len(ms) |-> IF ms[i].s = key THEN PairV(key, v) ELSE ms[i]]
    ELSE Append(ms, PairV(key, v))

\* dict.get(key, default)
DictGet(obj, key, default) ==
    IF HasKey(obj.items, key)
    THEN (CHOOSE m \in {obj.items[i] : i \in 1..Len(obj.items)} : m.s = key).items[1]
    ELSE default

(***************************************************************************)
(* json.loads: strict recursive-descent parse of a character sequence      *)
(***************************************************************************)
ParseFail == [ok |-> FALSE, v |-> NullV, nx |-> 0]
ParseOk(v, nx) == [ok |-> TRUE, v |-> v, nx |-> nx]

RECURSIVE SkipWs(_, _)
SkipWs(t, i) == IF i <= Len(t) /\ t[i] = SP THEN SkipWs(t, i + 1) ELSE i

At(t, i) == IF i >= 1 /\ i <= Len(t) THEN t[i] ELSE "<EOF>"

RECURSIVE ParseStringBody(_, _, _)
ParseStringBody(t, i, acc) ==
    IF i > Len(t) THEN ParseFail
    ELSE IF t[i] = QT THEN ParseOk(StrV(acc), i + 1)
    ELSE IF t[i] = BS
         THEN IF At(t, i + 1) \in EscChars
              THEN ParseStringBody(t, i + 2, Append(acc, Unescape(t[i + 1])))
              ELSE ParseFail
    ELSE ParseStringBody(t, i + 1, Append(acc, t[i]))

RECURSIVE ParseDigits(_, _, _)
ParseDigits(t, i, acc) ==
    IF At(t, i) = "1" THEN ParseDigits(t, i + 1, Append(acc, "1"))
    ELSE ParseOk(NumV(acc), i)

RECURSIVE ParseValue(_, _)
RECURSIVE ParseMembers(_, _, _)
RECURSIVE ParseElements(_, _, _)

ParseMembers(t, i, acc) ==
    IF At(t, i) # QT THEN ParseFail
    ELSE LET key == ParseStringBody(t, i + 1, <<>>) IN
         IF ~key.ok THEN ParseFail
         ELSE LET c == SkipWs(t, key.nx) IN
              IF At(t, c) # CL THEN ParseFail
              ELSE LET val == ParseValue(t, SkipWs(t, c + 1)) IN
                   IF ~val.ok THEN ParseFail
                   ELSE LET d == SkipWs(t, val.nx)
                            acc2 == PutMember(acc, key.v.s, val.v)
                        IN  IF At(t, d) = CM THEN ParseMembers(t, SkipWs(t, d + 1), acc2)
                            ELSE IF At(t, d) = RB THEN ParseOk(ObjV(acc2), d + 1)
                            ELSE ParseFail

ParseElements(t, i, acc) ==
    LET val == ParseValue(t, i) IN
    IF ~val.ok THEN ParseFail
    ELSE LET d == SkipWs(t, val.nx)
             acc2 == Append(acc, val.v)
         IN  IF At(t, d) = CM THEN ParseElements(t, SkipWs(t, d + 1), acc2)
             ELSE IF At(t, d) = RK THEN ParseOk(ArrV(acc2), d + 1)
             ELSE ParseFail

ParseValue(t, i) ==
    LET c == At(t, i) IN
    IF c = LB
    THEN LET j == SkipWs(t, i + 1) IN
         IF At(t, j) = RB THEN ParseOk(ObjV(<<>>), j + 1) ELSE ParseMembers(t, j, <<>>)
    ELSE IF c = LK
    THEN LET j == SkipWs(t, i + 1) IN
         IF At(t, j) = RK THEN ParseOk(ArrV(<<>>), j + 1) ELSE ParseElements(t, j, <<>>)
    ELSE IF c = QT THEN ParseStringBody(t, i + 1, <<>>)
    ELSE IF c = "1" THEN ParseDigits(t, i, <<>>)
    ELSE ParseFail

\* json.loads(t): the whole text must be one value surrounded by whitespace
JsonLoads(t) ==
    LET r == ParseValue(t, SkipWs(t, 1)) IN
    IF r.ok /\ SkipWs(t, r.nx) = Len(t) + 1 THEN ParseOk(r.v, r.nx) ELSE ParseFail

(***************************************************************************)
(* repair_truncated_json                                                   *)
(***************************************************************************)
\* '"mentionedUnits"' in text
HasMentionedUnits(t) ==
    \E i \in 1..Len(t) : i + 2 <= Len(t) /\ t[i] = QT /\ t[i + 1] = "M" /\ t[i + 2] = QT

\* the scanner's loop variables
ScanState(depth, inStr, esc, last) ==
    [brace_depth |-> depth, in_string |-> inStr, escape_next |-> esc,
     last_complete_brace |-> last]

\* the scanner before the first character; offsets are 1-based, 0 is "none" (-1)
ScanInit == ScanState(0, FALSE, FALSE, 0)

\* a scanner that lets a quote after a backslash toggle string mode
ScanStepNoEscape(st, i, c) ==
    IF c = QT THEN [st EXCEPT !.in_string = ~st.in_string]
    ELSE IF st.in_string THEN st
    ELSE IF c = LB THEN [st EXCEPT !.brace_depth = st.brace_depth + 1]
    ELSE IF c = RB
         THEN [st EXCEPT !.brace_depth = st.brace_depth - 1,
                         !.last_complete_brace =
                             IF st.brace_depth - 1 >= 1 THEN i ELSE st.last_complete_brace]
    ELSE st

\* a scanner that records every closing brace outside a string, the one that
\* closes the top-level object included
ScanStepAnyDepth(st, i, c) ==
    IF st.escape_next THEN [st EXCEPT !.escape_next = FALSE]
    ELSE IF c = BS THEN [st EXCEPT !.escape_next = TRUE]
    ELSE IF c = QT THEN [st EXCEPT !.in_string = ~st.in_string]
    ELSE IF st.in_string THEN st
    ELSE IF c = LB THEN [st EXCEPT !.brace_depth = st.brace_depth + 1]
    ELSE IF c = RB
         THEN [st EXCEPT !.brace_depth = st.brace_depth - 1, !.last_complete_brace = i]
    ELSE st

\* one iteration of the scan loop, on character c at offset i
ScanStep(st, i, c) ==
    IF st.escape_next THEN [st EXCEPT !.escape_next = FALSE]
    ELSE IF c = BS THEN [st EXCEPT !.escape_next = TRUE]
    ELSE IF c = QT THEN [st EXCEPT !.in_string = ~st.in_string]
    ELSE IF st.in_string THEN st
    ELSE IF c = LB THEN [st EXCEPT !.brace_depth = st.brace_depth + 1]
    ELSE IF c = RB
         THEN [st EXCEPT !.brace_depth = st.brace_depth - 1,
                         !.last_complete_brace =
                             IF st.brace_depth - 1 >= 1 THEN i ELSE st.last_complete_brace]
    ELSE st

\* the loop over characters lo..hi in order, from state st (evaluated by halves)
RECURSIVE ScanRange(_, _, _, _)
ScanRange(t, lo, hi, st) ==
    IF lo > hi THEN st
    ELSE IF lo = hi THEN ScanStep(st, lo, t[lo])
    ELSE LET mid == (lo + hi) \div 2
             left == ScanRange(t, lo, mid, st)
         IN  \* the first half is evaluated before the second half starts
             IF left.brace_depth = left.brace_depth
             THEN ScanRange(t, mid + 1, hi, left)
             ELSE left

\* offset (1-based) of the last closing brace of a nested object, 0 if none
LastCompleteBrace(t) == ScanRange(t, 1, Len(t), ScanInit).last_complete_brace

RECURSIVE Rstrip(_)
Rstrip(t) == IF Len(t) > 0 /\ t[Len(t)] = SP THEN Rstrip(SubSeq(t, 1, Len(t) - 1)) ELSE t

EndsWith(t, c) == Len(t) > 0 /\ t[Len(t)] = c

\* '], "unmatchedMentions": []}'
ClosingFragment == <<RK, CM, SP, QT, "U", QT, CL, SP, LK, RK, RB>>

NoRepair == [some |-> FALSE, text |-> <<>>]

\* a repair that closes whatever object is open instead of cutting back to
\* the last complete one
RepairCloseOpenObject(t) ==
    IF ~HasMentionedUnits(t) THEN NoRepair
    ELSE [some |-> TRUE, text |-> Rstrip(t) \o <<RB>> \o ClosingFragment]

repair_truncated_json(t) ==
    IF ~HasMentionedUnits(t) THEN NoRepair
    ELSE LET last == LastCompleteBrace(t) IN
         IF last = 0 THEN NoRepair
         ELSE LET cut == SubSeq(t, 1, last) IN
              IF EndsWith(Rstrip(cut), RB)
              THEN LET r == Rstrip(cut)
                       r2 == IF EndsWith(r, CM) THEN SubSeq(r, 1, Len(r) - 1) ELSE r
                   IN  [some |-> TRUE, text |-> r2 \o ClosingFragment]
              ELSE [some |-> TRUE, text |-> cut]

(***************************************************************************)
(* The decode step of curate_pending_sources: strict parse, on failure     *)
(* repair and strict parse of the repaired text; the original error is     *)
(* raised when there is no repair or the second parse fails.               *)
(***************************************************************************)
\* the JSONDecodeError that leaves the decode step, named by its document
NoError == [some |-> FALSE, doc |-> <<>>]
ErrorOn(doc) == [some |-> TRUE, doc |-> doc]

DecodeResult(ok, v, rep) == [ok |-> ok, v |-> v, repaired |-> rep, raised |-> NoError]

\* "raise e": the decode step ends in the error of the parse of doc
DecodeFailure(doc, rep) ==
    [ok |-> FALSE, v |-> NullV, repaired |-> rep, raised |-> ErrorOn(doc)]

\* a decode that repairs whenever a repair exists, valid input or not
DecodeRepairFirst(t) ==
    LET rep == repair_truncated_json(t)
        second == JsonLoads(rep.text)
        first == JsonLoads(t)
    IN  IF rep.some /\ second.ok THEN DecodeResult(TRUE, second.v, TRUE)
        ELSE IF first.ok THEN DecodeResult(TRUE, first.v, FALSE)
        ELSE DecodeFailure(t, FALSE)

\* a decode that lets the error of the second parse propagate
DecodeRaiseSecond(t) ==
    LET first == JsonLoads(t) IN
    IF first.ok THEN DecodeResult(TRUE, first.v, FALSE)
    ELSE LET rep == repair_truncated_json(t) IN
         IF rep.some /\ Len(rep.text) > 0
         THEN LET second == JsonLoads(rep.text) IN
              IF second.ok THEN DecodeResult(TRUE, second.v, TRUE)
              ELSE DecodeFailure(rep.text, TRUE)
         ELSE DecodeFailure(t, FALSE)

\* lines 2692-2706: json.loads(text); on JSONDecodeError e the repair and a
\* second json.loads, and "raise e" when there is no repair or that fails
DecodeCuration(t) ==
    LET first == JsonLoads(t) IN
    IF first.ok THEN DecodeResult(TRUE, first.v, FALSE)
    ELSE LET rep == repair_truncated_json(t) IN
         IF rep.some /\ Len(rep.text) > 0
         THEN LET second == JsonLoads(rep.text) IN
              IF second.ok THEN DecodeResult(TRUE, second.v, TRUE)
              ELSE DecodeFailure(t, TRUE)
         ELSE DecodeFailure(t, FALSE)

\* curation_result.get("mentionedUnits", []) of a decoded object
MentionedUnits(v) == DictGet(v, <<"M">>, ArrV(<<>>)).items

(***************************************************************************)
(* Response texts of the curation call: a top-level object with a          *)
(* mentionedUnits array, an optional field before it and after it, cut     *)
(* off after any number of characters (the output-length limit).           *)
(***************************************************************************)
MaxEntries == 2

EntryKinds == {"flat", "brace", "esc", "nested", "noid"}

\* flat   {"D":"a"}
\* brace  {"D":"b","n":"}"}
\* esc    {"D":"a","n":"\"}"}
\* nested {"D":"b", "n":{"n":1}}
\* noid   {"n":"a"}
EntryText(e) ==
    CASE e = "flat"   -> <<LB, QT, "D", QT, CL, QT, "a", QT, RB>>
      [] e = "brace"  -> <<LB, QT, "D", QT, CL, QT, "b", QT, CM,
                           QT, "n", QT, CL, QT, RB, QT, RB>>
      [] e = "esc"    -> <<LB, QT, "D", QT, CL, QT, "a", QT, CM,
                           QT, "n", QT, CL, QT, BS, QT, RB, QT, RB>>
      [] e = "nested" -> <<LB, QT, "D", QT, CL, QT, "b", QT, CM, SP,
                           QT, "n", QT, CL, LB, QT, "n", QT, CL, "1", RB, RB>>
      [] e = "noid"   -> <<LB, QT, "n", QT, CL, QT, "a", QT, RB>>

\* the value each entry denotes, written out by hand
EntryValue(e) ==
    CASE e = "flat"   -> ObjV(<<PairV(<<"D">>, StrV(<<"a">>))>>)
      [] e = "brace"  -> ObjV(<<PairV(<<"D">>, StrV(<<"b">>)), PairV(<<"n">>, StrV(<<RB>>))>>)
      [] e = "esc"    -> ObjV(<<PairV(<<"D">>, StrV(<<"a">>)), PairV(<<"n">>, StrV(<<QT, RB>>))>>)
      [] e = "nested" -> ObjV(<<PairV(<<"D">>, StrV(<<"b">>)),
                                PairV(<<"n">>, ObjV(<<PairV(<<"n">>, NumV(<<"1">>))>>))>>)
      [] e = "noid"   -> ObjV(<<PairV(<<"n">>, StrV(<<"a">>))>>)

\* offset inside the entry's text of the brace closing a nested object, 0 if none
NestedCloseAt(e) == IF e = "nested" THEN 21 ELSE 0

PrefixKinds == {"none", "objs"}
SuffixKinds == {"none", "unmatched"}

\* objs:  "n":[{"n":1}],
PrefixText(p) ==
    IF p = "objs"
    THEN <<QT, "n", QT, CL, LK, LB, QT, "n", QT, CL, "1", RB, RK, CM>>
    ELSE <<>>

PrefixMembers(p) ==
    IF p = "objs"
    THEN <<PairV(<<"n">>, ArrV(<<ObjV(<<PairV(<<"n">>, NumV(<<"1">>))>>)>>))>>
    ELSE <<>>

\* unmatched:  ,"U":["n"]
SuffixText(x) ==
    IF x = "unmatched" THEN <<CM, QT, "U", QT, CL, LK, QT, "n", QT, RK>> ELSE <<>>

SuffixMembers(x) ==
    IF x = "unmatched" THEN <<PairV(<<"U">>, ArrV(<<StrV(<<"n">>)>>))>> ELSE <<>>

RECURSIVE JoinEntries(_)
JoinEntries(es) ==
    IF Len(es) = 0 THEN <<>>
    ELSE IF Len(es) = 1 THEN EntryText(es[1])
    ELSE EntryText(es[1]) \o <<CM>> \o JoinEntries(Tail(es))

\* { <prefix> "M":[ <entries> ] <suffix> }
ArrayOpen(o) == <<LB>> \o PrefixText(o.pre) \o <<QT, "M", QT, CL, LK>>

FullText(o) ==
    ArrayOpen(o) \o JoinEntries(o.entries) \o <<RK>> \o SuffixText(o.suf) \o <<RB>>

EntryValues(o) == [i \in 1..Len(o.entries) |-> EntryValue(o.entries[i])]

FullValue(o) ==
    ObjV(PrefixMembers(o.pre) \o <<PairV(<<"M">>, ArrV(EntryValues(o)))>>
         \o SuffixMembers(o.suf))

\* 1-based offsets of the first and last character of entry j in FullText(o)
RECURSIVE EntryStart(_, _)
EntryStart(o, j) ==
    IF j = 1 THEN Len(ArrayOpen(o)) + 1
    ELSE EntryStart(o, j - 1) + Len(EntryText(o.entries[j - 1])) + 1

EntryEnd(o, j) == EntryStart(o, j) + Len(EntryText(o.entries[j])) - 1

\* number of entries of o wholly inside its first n characters
CompleteEntries(o, n) == Cardinality({j \in 1..Len(o.entries) : EntryEnd(o, j) <= n})

\* the first n characters end inside entry j (its opening brace is kept,
\* its closing brace is not)
CutInsideEntry(o, n, j) ==
    j \in 1..Len(o.entries) /\ EntryStart(o, j) <= n /\ n < EntryEnd(o, j)

Origins ==
    [entries : UNION {[1..k -> EntryKinds] : k \in 0..MaxEntries},
     pre : PrefixKinds, suf : SuffixKinds]

NotDecoded == DecodeResult(FALSE, NullV, FALSE)

DecoderInit ==
    /\ origin \in Origins
    /\ text = FullText(origin)
    /\ dstage = "raw"
    /\ decoded = NotDecoded

\* the response is cut one character shorter
Truncate ==
    /\ dstage = "raw"
    /\ Len(text) > 0
    /\ text' = SubSeq(text, 1, Len(text) - 1)
    /\ UNCHANGED <<origin, dstage, decoded>>
    /\ UNCHANGED nonDecoder

\* lines 2692-2706 applied to the response text
Decode ==
    /\ dstage = "raw"
    /\ decoded' = DecodeCuration(text)
    /\ dstage' = "decoded"
    /\ UNCHANGED <<text, origin>>
    /\ UNCHANGED nonDecoder

NextDecode == Truncate \/ Decode

vars == <<dvars, pvars, nvars, avars, mvars, rvars>>

(***************************************************************************)
(* Properties of the decode step (SpecDecode)                              *)
(***************************************************************************)
IsTruncated == Len(text) < Len(FullText(origin))

IsPrefixOfEntries(mu, n) ==
    /\ Len(mu) <= n
    /\ \A i \in 1..Len(mu) : mu[i] = EntryValue(origin.entries[i])

\* C1: whenever the response was cut off (at any character, in particular
\* inside an entry of the mentionedUnits array) the decode step either fails
\* or returns an object whose mentionedUnits are, in order, entries that are
\* complete in the text: never a partial, merged or invented entry.
C1_OnlyCompleteEntries ==
    (dstage = "decoded" /\ IsTruncated /\ decoded.ok) =>
        /\ decoded.v.k = "obj"
        /\ IsPrefixOfEntries(MentionedUnits(decoded.v), CompleteEntries(origin, Len(text)))

C1_Witness ==
    /\ dstage = "decoded"
    /\ CutInsideEntry(origin, Len(text), 2)
    /\ origin.entries[2] # "flat"
    /\ Len(text) > EntryStart(origin, 2) + 8
    /\ decoded.ok /\ decoded.repaired
    /\ Len(MentionedUnits(decoded.v)) = 1

\* C2: on a valid JSON text the decode step returns the strict parser's
\* value (the value the document denotes) and does not apply the repair.
C2_StrictOnValidJson ==
    /\ (dstage = "decoded" /\ JsonLoads(text).ok) =>
           /\ decoded.ok /\ ~decoded.repaired
           /\ decoded.v = JsonLoads(text).v
    /\ (dstage = "decoded" /\ ~IsTruncated) =>
           /\ decoded.ok /\ ~decoded.repaired
           /\ decoded.v = FullValue(origin)

C2_Witness ==
    /\ dstage = "decoded" /\ ~IsTruncated
    /\ Len(origin.entries) = 2 /\ origin.suf = "unmatched" /\ origin.pre = "objs"
    /\ decoded.ok /\ repair_truncated_json(text).some

\* the decode recovered exactly the first k entries, from the text cut after
\* entry k followed by the closing fragment
RecoversFirst(k) ==
    /\ decoded.ok /\ decoded.repaired
    /\ decoded.v.k = "obj"
    /\ MentionedUnits(decoded.v) = SubSeq(EntryValues(origin), 1, k)
    /\ repair_truncated_json(text).text =
           SubSeq(text, 1, EntryEnd(origin, k)) \o ClosingFragment

\* the kept part of entry j holds the closing brace of an object nested in it
KeepsNestedClose(j) ==
    /\ NestedCloseAt(origin.entries[j]) > 0
    /\ Len(text) >= EntryStart(origin, j) + NestedCloseAt(origin.entries[j]) - 1

MaxSources == 2
MaxDbFailures == 1

SourceIds == 1..MaxSources
\* "article" stands for every kind that is acquired automatically
SourceKinds == {"discord", "article"}
\* sourceType "youtube": captions, or else the audio through Whisper
VideoKinds == {"youtube"}
PhaseNames == {"fetch", "curate", "extract"}

\* what db_get_faction_datasheets holds for a source: the datasheets of its
\* faction, none for a faction without datasheets, none without a faction
CatalogKinds == {"units", "empty", "no_faction"}

\* a CompetitiveSource row as created: status pending, nothing fetched;
\* "catalog" is the datasheet list of the row's factionId
SourceOf(kind, catalog) ==
    [kind |-> kind, catalog |-> catalog, status |-> "pending", content |-> "none",
     errorMessage |-> "none"]

\* a source of a faction that has datasheets
NewSource(kind) == SourceOf(kind, "units")

\* lines 2573-2577: faction_datasheets.get(faction_id, []) is not empty
HasDatasheets(s) == sources[s].catalog = "units"

\* ORDER BY "createdAt" ASC: ids are handed out in creation order
RECURSIVE Ascending(_)
Ascending(S) ==
    IF S = {} THEN <<>>
    ELSE LET m == CHOOSE x \in S : \A y \in S : x <= y IN <<m>> \o Ascending(S \ {m})

\* a listing without the WHERE cs.status = %s clause
ListSourcesAnyStatus(status) == Ascending(SourceIds)

\* lines 180-195: WHERE cs.status = %s ORDER BY cs."createdAt" ASC
db_get_pending_sources(status) ==
    Ascending({s \in SourceIds : sources[s].status = status})

\* an update that writes every column, None included
UpdateSourceAllColumns(tbl, id, status, content, err) ==
    [tbl EXCEPT ![id] =
        [kind |-> tbl[id].kind,
         catalog |-> tbl[id].catalog,
         status |-> status,
         content |-> content,
         errorMessage |-> err]]

\* UPDATE "CompetitiveSource" SET status = .., and each keyword that is not None
db_update_source_status(tbl, id, status, content, err) ==
    [tbl EXCEPT ![id] =
        [kind |-> tbl[id].kind,
         catalog |-> tbl[id].catalog,
         status |-> status,
         content |-> IF content # "none" THEN content ELSE tbl[id].content,
         errorMessage |-> IF err # "none" THEN err ELSE tbl[id].errorMessage]]

LinkOf(rows, ds, src) ==
    {l \in rows : l.datasheetId = ds /\ l.sourceId = src}

\* an INSERT with no ON CONFLICT clause
InsertLinkAlways(st, src, link) ==
    [st EXCEPT !.rows = @ \cup {[id |-> st.nid, datasheetId |-> link.datasheetId,
                                 sourceId |-> src, mentionSummary |-> link.mentionSummary,
                                 status |-> "pending", found |-> "null", confidence |-> -1,
                                 updatedAt |-> "created"]},
               !.nid = @ + 1]

\* an upsert whose DO UPDATE also sets status = 'pending'
UpsertLinkResetStatus(st, src, link) ==
    IF LinkOf(st.rows, link.datasheetId, src) # {}
    THEN [st EXCEPT !.rows =
            {IF l \in LinkOf(st.rows, link.datasheetId, src)
             THEN [l EXCEPT !.mentionSummary = link.mentionSummary, !.updatedAt = "later",
                            !.status = "pending"]
             ELSE l : l \in st.rows}]
    ELSE [st EXCEPT !.rows = @ \cup {[id |-> st.nid, datasheetId |-> link.datasheetId,
                                      sourceId |-> src, mentionSummary |-> link.mentionSummary,
                                      status |-> "pending", found |-> "null", confidence |-> -1,
                                      updatedAt |-> "created"]},
                    !.nid = @ + 1]

\* INSERT .. ON CONFLICT ("datasheetId", "competitiveSourceId") DO UPDATE SET ..
UpsertLink(st, src, link) ==
    IF LinkOf(st.rows, link.datasheetId, src) # {}
    THEN [st EXCEPT !.rows =
            {IF l \in LinkOf(st.rows, link.datasheetId, src)
             THEN [l EXCEPT !.mentionSummary = link.mentionSummary, !.updatedAt = "later"]
             ELSE l : l \in st.rows}]
    ELSE [st EXCEPT !.rows = @ \cup {[id |-> st.nid, datasheetId |-> link.datasheetId,
                                      sourceId |-> src, mentionSummary |-> link.mentionSummary,
                                      status |-> "pending", found |-> "null", confidence |-> -1,
                                      updatedAt |-> "created"]},
                    !.nid = @ + 1]

\* the loop of db_create_datasheet_links from list position i; every statement
\* commits on its own (autocommit); statement failAt raises (0: none does)
RECURSIVE db_create_datasheet_links(_, _, _, _, _)
db_create_datasheet_links(st, src, linkList, i, failAt) ==
    IF i > Len(linkList) THEN [st EXCEPT !.raised = FALSE]
    ELSE IF i = failAt THEN [st EXCEPT !.raised = TRUE]
    ELSE db_create_datasheet_links(UpsertLink(st, src, linkList[i]), src, linkList, i + 1, failAt)

\* a listing without the status filter on the link
ListLinksAnyStatus ==
    Ascending({l.id : l \in {r \in links : sources[r.sourceId].status \in {"curated", "extracted"}}})

\* db_get_pending_datasheet_sources: pending rows of curated or extracted sources
db_get_pending_datasheet_sources ==
    Ascending({l.id : l \in {r \in links : /\ r.status = "pending"
                                           /\ sources[r.sourceId].status \in {"curated", "extracted"}}})

db_update_datasheet_source_extraction(rows, id, found, confidence, status) ==
    {IF l.id = id
     THEN [l EXCEPT !.found = found, !.confidence = confidence, !.status = status,
                    !.updatedAt = "later"]
     ELSE l : l \in rows}

LinkRow(id) == CHOOSE l \in links : l.id = id

(***************************************************************************)
(* The outside world: acquisition, the LLM, and datastore calls that raise *)
(***************************************************************************)
\* a datastore call can still raise
DbMayFail(used) == dbFailures + used < MaxDbFailures

WriteOutcomes == {"ok", "raise"}

FailCount(w) == IF w = "raise" THEN 1 ELSE 0

\* responses of the curation call: two entries naming the same datasheet
\* (the second with a summary), and no entries
DupOrigin == [entries |-> <<"flat", "esc">>, pre |-> "none", suf |-> "unmatched"]
RespDup == FullText(DupOrigin)
RespNone == FullText([entries |-> <<>>, pre |-> "none", suf |-> "none"])
\* RespDup cut inside its second entry, and cut inside its first entry
RespCut == SubSeq(RespDup, 1, EntryStart(DupOrigin, 2) + 5)
RespBad == SubSeq(RespDup, 1, EntryStart(DupOrigin, 1) + 5)

CurationResponses == {RespDup, RespNone, RespCut, RespBad}

\* what extract_unit_context returns: success+found with a reported
\* confidence, success+not found, or success = False
ExtractResults ==
    {[success |-> TRUE, found |-> TRUE, confidence |-> 80],
     [success |-> TRUE, found |-> FALSE, confidence |-> 0],
     [success |-> FALSE, found |-> FALSE, confidence |-> 0]}

(***************************************************************************)
(* Invocations and phases                                                  *)
(***************************************************************************)
FirstPc(c) ==
    CASE c = "all" -> "fetch_start"
      [] c = "fetch" -> "fetch_start"
      [] c = "curate" -> "curate_start"
      [] c = "extract" -> "extract_start"

\* process_all_pipeline goes on to the next step whatever the result was
AfterPhase(ph) ==
    IF cmd # "all" THEN "idle"
    ELSE CASE ph = "fetch" -> "curate_start"
           [] ph = "curate" -> "extract_start"
           [] ph = "extract" -> "idle"

\* the phase returns code
Return(ph, code) ==
    /\ exits' = [exits EXCEPT ![ph] = code]
    /\ pc' = AfterPhase(ph)
    /\ queue' = <<>>

\* an exception leaves the phase function and, uncaught, the program
Raise(ph) ==
    /\ exits' = [exits EXCEPT ![ph] = "raised"]
    /\ pc' = "idle"
    /\ queue' = <<>>

\* what the command returns to main once it is over: a single phase hands
\* back its own code; process_all_pipeline (lines 2877-2902) prints a warning
\* for a non-zero phase result and returns 0; an uncaught exception ends
\* the program
CommandStatus ==
    IF \E ph \in PhaseNames : exits[ph] = "raised" THEN "raised"
    ELSE IF cmd = "all" THEN "0"
    ELSE exits[cmd]

PipelineInit ==
    /\ sources \in [SourceIds -> {NewSource(k) : k \in SourceKinds}]
    /\ links = {}
    /\ nextLinkId = 1
    /\ hasKey \in BOOLEAN
    /\ hasSttKey = TRUE
    /\ tracing = FALSE
    /\ cmd = "none"
    /\ pc = "idle"
    /\ queue = <<>>
    /\ processed = {}
    /\ exits = [ph \in PhaseNames |-> "none"]
    /\ dbFailures = 0

\* video and article sources, either credential set or not, and a
\* datastore that does not fail
PipelineInitKeys ==
    /\ sources \in [SourceIds -> {NewSource(k) : k \in VideoKinds \cup {"article"}}]
    /\ links = {}
    /\ nextLinkId = 1
    /\ hasKey \in BOOLEAN
    /\ hasSttKey \in BOOLEAN
    /\ tracing = FALSE
    /\ cmd = "none"
    /\ pc = "idle"
    /\ queue = <<>>
    /\ processed = {}
    /\ exits = [ph \in PhaseNames |-> "none"]
    /\ dbFailures = MaxDbFailures

\* main(): one of --process-all, --fetch-pending, --curate-pending, --extract-pending
Invoke ==
    /\ pc = "idle"
    /\ \E c \in {"all", "fetch", "curate", "extract"} :
          /\ cmd' = c
          /\ pc' = FirstPc(c)
    /\ queue' = <<>>
    /\ processed' = {}
    /\ exits' = [ph \in PhaseNames |-> "none"]
    /\ UNCHANGED <<tables, hasKey, hasSttKey, tracing, dbFailures>>
    /\ UNCHANGED nonPipeline

(***************************************************************************)
(* fetch_pending_sources                                                   *)
(***************************************************************************)
\* lines 2422-2433: the listing query
FetchStart ==
    /\ pc = "fetch_start"
    /\ \/ /\ DbMayFail(0)
          /\ dbFailures' = dbFailures + 1
          /\ Return("fetch", "1")
       \/ /\ db_get_pending_sources("pending") = <<>>
          /\ Return("fetch", "0")
          /\ UNCHANGED dbFailures
       \/ /\ db_get_pending_sources("pending") # <<>>
          /\ queue' = db_get_pending_sources("pending")
          /\ pc' = "fetch_loop"
          /\ UNCHANGED <<exits, dbFailures>>
    /\ UNCHANGED <<tables, hasKey, hasSttKey, tracing, cmd, processed>>
    /\ UNCHANGED nonPipeline

\* lines 2480-2482: a discord source is skipped, nothing is written
FetchSkipDiscord(s) ==
    /\ sources[s].kind = "discord"
    /\ queue' = Tail(queue)
    /\ UNCHANGED <<sources, dbFailures, pc, exits>>

\* lines 2455-2496: what acquiring the content of a source ends in. A video
\* yields content from its captions, or from Whisper when the key is set;
\* whisper_transcribe raises RuntimeError (lines 816-818) when it is not;
\* anything else that raises, or empty content, is "failed"
AcquireOutcomes(kind) ==
    IF kind \in VideoKinds /\ ~hasSttKey
    THEN {"content", "failed", "no_stt_key"}
    ELSE {"content", "failed"}

\* str(e) of the exception the except clause at line 2512 stores
ErrorMessage(acq) == IF acq = "no_stt_key" THEN "no_stt_key" ELSE "msg"

\* lines 2455-2515 for any other kind: acquire, write fetched; on any
\* exception write error (that write is not guarded)
FetchAcquire(s) ==
    /\ sources[s].kind # "discord"
    /\ \E acq \in AcquireOutcomes(sources[s].kind), w1 \in WriteOutcomes, w2 \in WriteOutcomes :
          LET tryOk == acq = "content" /\ w1 = "ok"
              used == (IF acq = "content" THEN FailCount(w1) ELSE 0)
                      + (IF tryOk THEN 0 ELSE FailCount(w2))
          IN  /\ acq # "content" => w1 = "ok"
              /\ tryOk => w2 = "ok"
              /\ dbFailures + used <= MaxDbFailures
              /\ dbFailures' = dbFailures + used
              /\ IF tryOk
                 THEN /\ sources' = db_update_source_status(sources, s, "fetched", "text", "none")
                      /\ queue' = Tail(queue)
                      /\ UNCHANGED <<pc, exits>>
                 ELSE IF w2 = "ok"
                 THEN /\ sources' = db_update_source_status(sources, s, "error", "none",
                                                            ErrorMessage(acq))
                      /\ queue' = Tail(queue)
                      /\ UNCHANGED <<pc, exits>>
                 ELSE /\ Raise("fetch")
                      /\ UNCHANGED sources

\* one iteration of the loop at line 2437
FetchStep ==
    /\ pc = "fetch_loop"
    /\ queue # <<>>
    /\ \/ FetchSkipDiscord(Head(queue))
       \/ FetchAcquire(Head(queue))
    /\ UNCHANGED <<links, nextLinkId, hasKey, hasSttKey, tracing, cmd, processed>>
    /\ UNCHANGED nonPipeline

\* lines 2517-2518
FetchEnd ==
    /\ pc = "fetch_loop"
    /\ queue = <<>>
    /\ Return("fetch", "0")
    /\ UNCHANGED <<tables, hasKey, hasSttKey, tracing, cmd, processed, dbFailures>>
    /\ UNCHANGED nonPipeline

(***************************************************************************)
(* curate_pending_sources                                                  *)
(***************************************************************************)
\* lines 2533-2558: the credential check, then the listing query
CurateStart ==
    /\ pc = "curate_start"
    /\ \/ /\ ~hasKey
          /\ Return("curate", "1")
          /\ UNCHANGED dbFailures
       \/ /\ hasKey
          /\ DbMayFail(0)
          /\ dbFailures' = dbFailures + 1
          /\ Return("curate", "1")
       \/ /\ hasKey
          /\ db_get_pending_sources("fetched") = <<>>
          /\ Return("curate", "0")
          /\ UNCHANGED dbFailures
       \/ /\ hasKey
          /\ db_get_pending_sources("fetched") # <<>>
          /\ queue' = db_get_pending_sources("fetched")
          /\ pc' = "curate_loop"
          /\ UNCHANGED <<exits, dbFailures>>
    /\ UNCHANGED <<tables, hasKey, hasSttKey, tracing, cmd, processed>>
    /\ UNCHANGED nonPipeline

\* u["datasheetId"] exists for every mentioned unit
AllHaveId(units) ==
    \A i \in 1..Len(units) : units[i].k = "obj" /\ HasKey(units[i].items, <<"D">>)

\* lines 2728-2736: the link dicts built from the mentioned units
LinkDicts(units) ==
    [i \in 1..Len(units) |->
        [datasheetId |-> DictGet(units[i], <<"D">>, NullV).s[1],
         mentionSummary |-> DictGet(units[i], <<"n">>, StrV(<<>>)).s]]

\* the response decodes to a result the loop body can use
Usable(d) == d.ok /\ d.v.k = "obj" /\ AllHaveId(MentionedUnits(d.v))

\* lines 2683-2687 and 2762-2765: the call raised or returned an error
\* status; the handler prints and the loop goes on
CurateCallFails(s) ==
    /\ UNCHANGED <<tables, dbFailures>>

\* lines 2689-2706 and 2755-2761: the text decodes to nothing usable; the
\* handler prints and the loop goes on
CurateBadResponse(s, d) ==
    /\ ~Usable(d)
    /\ UNCHANGED <<tables, dbFailures>>

\* a variant that curates a source only when some unit is mentioned
CurateDecodedNonEmpty(s, d) ==
    /\ Usable(d)
    /\ LET units == MentionedUnits(d.v)
           st == db_create_datasheet_links(
                     [rows |-> links, nid |-> nextLinkId, raised |-> FALSE],
                     s, LinkDicts(units), 1, 0)
       IN  /\ UNCHANGED dbFailures
           /\ links' = st.rows
           /\ nextLinkId' = st.nid
           /\ sources' = IF units # <<>>
                         THEN db_update_source_status(sources, s, "curated", "none", "none")
                         ELSE sources

\* lines 2708-2747: upsert the links (a failure there is only printed), then
\* set the source to curated
CurateDecoded(s, d) ==
    /\ Usable(d)
    /\ LET units == MentionedUnits(d.v) IN
       \E failAt \in 0..Len(units), w \in WriteOutcomes :
          LET used == (IF failAt > 0 THEN 1 ELSE 0) + FailCount(w)
              st == db_create_datasheet_links(
                        [rows |-> links, nid |-> nextLinkId, raised |-> FALSE],
                        s, LinkDicts(units), 1, failAt)
          IN  /\ dbFailures + used <= MaxDbFailures
              /\ dbFailures' = dbFailures + used
              /\ links' = st.rows
              /\ nextLinkId' = st.nid
              /\ sources' = IF w = "ok"
                            THEN db_update_source_status(sources, s, "curated", "none", "none")
                            ELSE sources

\* what the tracing calls inside the try of the loop body come to: none is
\* made, they return, or one raises (trace.generation at 2666,
\* generation.end at 2712)
TraceCalls == IF tracing THEN {"ok", "span_raises"} ELSE {"off"}

\* lines 2708-2719 for a usable result: with a generation span the names of
\* the units are read (u["datasheetName"]) before anything is written, and
\* a unit without one, like a raising span, ends in the handler at 2762
CurateBody(trc, named) ==
    IF trc = "span_raises" THEN "skip"
    ELSE IF trc = "ok" /\ ~named THEN "skip"
    ELSE "write"

\* the tables and the way the loop body is left for one source and one
\* decoded response, the datastore not failing; "trace_raises" is
\* langfuse.trace raising at 2639, outside the try
CurateEffect(s, d, named, trc) ==
    IF trc = "trace_raises"
    THEN [sources |-> sources, links |-> links, left |-> "raised"]
    ELSE IF Usable(d) /\ CurateBody(trc, named) = "write"
    THEN [sources |-> db_update_source_status(sources, s, "curated", "none", "none"),
          links |-> db_create_datasheet_links(
                        [rows |-> links, nid |-> nextLinkId, raised |-> FALSE],
                        s, LinkDicts(MentionedUnits(d.v)), 1, 0).rows,
          left |-> "next"]
    ELSE [sources |-> sources, links |-> links, left |-> "next"]

\* one iteration of the loop at line 2561
CurateStep ==
    /\ pc = "curate_loop"
    /\ queue # <<>>
    /\ queue' = Tail(queue)
    /\ IF ~HasDatasheets(Head(queue))
       THEN \* lines 2574-2577: "continue" before any call is made
            UNCHANGED <<tables, dbFailures>>
       ELSE \/ CurateCallFails(Head(queue))
            \/ \E t \in CurationResponses :
                  CurateBadResponse(Head(queue), DecodeCuration(t))
            \/ \E t \in CurationResponses, trc \in TraceCalls, named \in BOOLEAN :
                  IF CurateBody(trc, named) = "write"
                  THEN CurateDecoded(Head(queue), DecodeCuration(t))
                  ELSE CurateCallFails(Head(queue))
    /\ UNCHANGED <<hasKey, hasSttKey, tracing, cmd, pc, processed, exits>>
    /\ UNCHANGED nonPipeline

\* the same iteration for the response text held by the decoder: lines
\* 2689-2765 once the call has returned text
CurateApply ==
    /\ pc = "curate_loop"
    /\ queue # <<>>
    /\ dstage = "decoded"
    /\ dstage' = "applied"
    /\ queue' = Tail(queue)
    /\ \/ CurateBadResponse(Head(queue), decoded)
       \/ CurateDecoded(Head(queue), decoded)
    /\ UNCHANGED <<hasKey, hasSttKey, tracing, cmd, pc, processed, exits>>
    /\ UNCHANGED <<text, origin, decoded>>
    /\ UNCHANGED <<nvars, avars, mvars, rvars>>

\* lines 2767-2775
CurateEnd ==
    /\ pc = "curate_loop"
    /\ queue = <<>>
    /\ Return("curate", "0")
    /\ UNCHANGED <<tables, hasKey, hasSttKey, tracing, cmd, processed, dbFailures>>
    /\ UNCHANGED nonPipeline

(***************************************************************************)
(* extract_pending_links                                                   *)
(***************************************************************************)
\* lines 2790-2808
ExtractStart ==
    /\ pc = "extract_start"
    /\ \/ /\ ~hasKey
          /\ Return("extract", "1")
          /\ UNCHANGED dbFailures
       \/ /\ hasKey
          /\ DbMayFail(0)
          /\ dbFailures' = dbFailures + 1
          /\ Return("extract", "1")
       \/ /\ hasKey
          /\ db_get_pending_datasheet_sources = <<>>
          /\ Return("extract", "0")
          /\ UNCHANGED dbFailures
       \/ /\ hasKey
          /\ db_get_pending_datasheet_sources # <<>>
          /\ queue' = db_get_pending_datasheet_sources
          /\ pc' = "extract_loop"
          /\ UNCHANGED <<exits, dbFailures>>
    /\ processed' = {}
    /\ UNCHANGED <<tables, hasKey, hasSttKey, tracing, cmd>>
    /\ UNCHANGED nonPipeline

\* a variant that records only a positive finding
ExtractionWriteFoundOnly(rows, id, res) ==
    IF res.success /\ res.found
    THEN db_update_datasheet_source_extraction(rows, id, "true", res.confidence, "extracted")
    ELSE rows

\* a variant that stores confidence 0 whatever was found
ExtractionWriteNoConfidence(rows, id, res) ==
    IF res.success /\ res.found
    THEN db_update_datasheet_source_extraction(rows, id, "true", 0, "extracted")
    ELSE db_update_datasheet_source_extraction(rows, id, "false", 0, "extracted")

\* lines 2835-2857: what is written for a result of extract_unit_context
ExtractionWrite(rows, id, res) ==
    IF res.success /\ res.found
    THEN db_update_datasheet_source_extraction(rows, id, "true", res.confidence, "extracted")
    ELSE db_update_datasheet_source_extraction(rows, id, "false", 0, "extracted")

\* one iteration of the loop at line 2813: the write may raise, which is
\* printed; the source is recorded as processed either way
ExtractStep ==
    /\ pc = "extract_loop"
    /\ queue # <<>>
    /\ LET id == Head(queue) IN
       \E res \in ExtractResults, w \in WriteOutcomes :
          /\ dbFailures + FailCount(w) <= MaxDbFailures
          /\ dbFailures' = dbFailures + FailCount(w)
          /\ links' = IF w = "ok" THEN ExtractionWrite(links, id, res) ELSE links
          /\ processed' = processed \cup {LinkRow(id).sourceId}
    /\ queue' = Tail(queue)
    /\ UNCHANGED <<sources, nextLinkId, hasKey, hasSttKey, tracing, cmd, pc, exits>>
    /\ UNCHANGED nonPipeline

\* the loop is over: go on to the source updates at line 2866
ExtractLoopEnd ==
    /\ pc = "extract_loop"
    /\ queue = <<>>
    /\ pc' = "extract_finish"
    /\ UNCHANGED <<tables, hasKey, hasSttKey, tracing, cmd, queue, processed, exits, dbFailures>>
    /\ UNCHANGED nonPipeline

\* lines 2867-2871: one processed source (a set, in any order) is set to
\* extracted; a failure is printed
ExtractFinishStep ==
    /\ pc = "extract_finish"
    /\ \E s \in processed, w \in WriteOutcomes :
          /\ dbFailures + FailCount(w) <= MaxDbFailures
          /\ dbFailures' = dbFailures + FailCount(w)
          /\ sources' = IF w = "ok"
                        THEN db_update_source_status(sources, s, "extracted", "none", "none")
                        ELSE sources
          /\ processed' = processed \ {s}
    /\ UNCHANGED <<links, nextLinkId, hasKey, hasSttKey, tracing, cmd, pc, queue, exits>>
    /\ UNCHANGED nonPipeline

\* lines 2873-2874
ExtractEnd ==
    /\ pc = "extract_finish"
    /\ processed = {}
    /\ Return("extract", "0")
    /\ UNCHANGED <<tables, hasKey, hasSttKey, tracing, cmd, processed, dbFailures>>
    /\ UNCHANGED nonPipeline

(***************************************************************************)
(* Network operations: requests_with_retry and the plain requests calls    *)
(***************************************************************************)
\* max_retries: int = 3; no call site passes another value
DefaultMaxRetries == 3

\* call sites that go through requests_with_retry (lines 1501, 2299, 2682)
WrappedOps == {"llm_extract", "llm_aggregate", "llm_curate"}
\* call sites that call requests.get / requests.post (lines 675, 869, 895, 806)
DirectOps == {"captions", "webpage", "reddit", "whisper"}
NetOps == WrappedOps \cup DirectOps

\* the exceptions the wrapper catches at line 108
ConnErrors == {"ConnectionError", "ChunkedEncodingError"}
\* an exception of requests it does not catch
OtherErrors == {"Timeout"}

\* a response with status 200 carries a body; the extraction call's body
\* says found (with a confidence of 80, or with none), not found, is empty,
\* or is not JSON
Bodies(op) ==
    IF op = "llm_extract"
    THEN {"found_80", "found_nc", "not_found", "empty", "unparsable"}
    ELSE {"ok"}

AttemptOutcomes(op) == ConnErrors \cup OtherErrors \cup {"http_error"} \cup Bodies(op)

\* one iteration of the loop at line 104: attempt is range(max_retries)'s
\* value, outcome what requests.request did
requests_with_retry(attempt, outcome, max_retries) ==
    IF outcome \in ConnErrors
    THEN IF attempt < max_retries - 1
         THEN [state |-> "trying", sleep |-> <<2 ^ attempt>>]
         ELSE [state |-> "raised", sleep |-> <<>>]
    ELSE IF outcome \in OtherErrors
    THEN [state |-> "raised", sleep |-> <<>>]
    ELSE [state |-> "returned", sleep |-> <<>>]

\* requests.get / requests.post called once; the caller's except fails the record
requests_direct(outcome) ==
    IF outcome \in ConnErrors \cup OtherErrors
    THEN [state |-> "raised", sleep |-> <<>>]
    ELSE [state |-> "returned", sleep |-> <<>>]

\* the dict extract_unit_context returns for the way its call ended
\* (lines 1499-1621)
extract_unit_context(state, outcome) ==
    IF state = "raised" \/ outcome \in {"http_error", "empty", "unparsable"}
    THEN [success |-> FALSE, found |-> FALSE, confidence |-> 0]
    ELSE IF outcome = "not_found"
    THEN [success |-> TRUE, found |-> FALSE, confidence |-> 0]
    ELSE [success |-> TRUE, found |-> TRUE,
          confidence |-> IF outcome = "found_80" THEN 80 ELSE 50]

\* the pending link an extraction call is made for
PendingLink ==
    [id |-> 1, datasheetId |-> "a", sourceId |-> 1, mentionSummary |-> <<>>,
     status |-> "pending", found |-> "null", confidence |-> -1, updatedAt |-> "created"]

NetIdle ==
    /\ netOp = "none"
    /\ netState = "idle"
    /\ netHistory = <<>>
    /\ netSlept = <<>>
    /\ netLink = {PendingLink}

\* a call site starts its request
NetCall ==
    /\ netState = "idle"
    /\ netOp' \in NetOps
    /\ netState' = "trying"
    /\ UNCHANGED <<netHistory, netSlept, netLink>>
    /\ UNCHANGED nonNet

\* one attempt inside requests_with_retry
RetryAttempt ==
    /\ netState = "trying"
    /\ netOp \in WrappedOps
    /\ \E o \in AttemptOutcomes(netOp) :
          LET r == requests_with_retry(Len(netHistory), o, DefaultMaxRetries) IN
          /\ netHistory' = Append(netHistory, o)
          /\ netSlept' = netSlept \o r.sleep
          /\ netState' = r.state
    /\ UNCHANGED <<netOp, netLink>>
    /\ UNCHANGED nonNet

\* the one attempt of a plain requests call
DirectAttempt ==
    /\ netState = "trying"
    /\ netOp \in DirectOps
    /\ \E o \in AttemptOutcomes(netOp) :
          /\ netHistory' = Append(netHistory, o)
          /\ netState' = requests_direct(o).state
    /\ UNCHANGED <<netOp, netSlept, netLink>>
    /\ UNCHANGED nonNet

\* lines 2826-2860: the extraction loop writes the link for the result of
\* extract_unit_context; the write may raise, which is printed
ExtractRecord ==
    /\ netOp = "llm_extract"
    /\ netState \in {"returned", "raised"}
    /\ \E w \in WriteOutcomes :
          IF w = "ok"
          THEN /\ netLink' = ExtractionWrite(netLink, PendingLink.id,
                                 extract_unit_context(netState, netHistory[Len(netHistory)]))
               /\ netState' = "recorded"
          ELSE /\ netLink' = netLink
               /\ netState' = "write_raised"
    /\ UNCHANGED <<netOp, netHistory, netSlept>>
    /\ UNCHANGED nonNet

NextNet == NetCall \/ RetryAttempt \/ DirectAttempt \/ ExtractRecord

(***************************************************************************)
(* Aggregation: aggregate_datasheet_context and its entry points           *)
(***************************************************************************)
\* the datasheet being aggregated; a scope is (factionId, detachmentId)
AggDatasheet == "a"
ScopeFactions == {"null", "f"}
ScopeDetachments == {"null", "d"}
AggLinkIds == {"l1"}

\* cs."factionId" of the CompetitiveSource a link belongs to
SourceFactions == {"f", "g"}

\* a DatasheetSource row of that datasheet, with the faction of its source
\* and, of its extractedContext, "found" and context.tierRank
ExtractedRow(status, isOutdated, f, found, tier) ==
    [status |-> status, isOutdated |-> isOutdated, factionId |-> f,
     found |-> found, tierRank |-> tier]

\* a row whose extraction, once done, found the unit and ranked it S
LinkRowOf(status, isOutdated, f) ==
    ExtractedRow(status, isOutdated, f, status = "extracted",
                 IF status = "extracted" THEN "S" ELSE "none")

LinkStates ==
    {LinkRowOf(st[1], st[2], f) :
        st \in {<<"pending", FALSE>>, <<"extracted", FALSE>>, <<"extracted", TRUE>>},
        f \in SourceFactions}

\* a listing that does not look at isOutdated
ListExtractedAnyAge(rows) ==
    {l \in DOMAIN rows : rows[l].status = "extracted"}

\* WHERE ds.status = 'extracted' AND ds."isOutdated" = false
db_get_datasheet_sources_for_aggregation(rows) ==
    {l \in DOMAIN rows : rows[l].status = "extracted" /\ ~rows[l].isOutdated}

\* lines 410-424: the rows that make the datasheet one "with sources" of a
\* faction: WHERE cs."factionId" = %s AND ds.status = 'extracted'
\*   AND ds."isOutdated" = false
db_get_datasheets_with_sources(rows, f) ==
    {l \in DOMAIN rows :
        rows[l].factionId = f /\ rows[l].status = "extracted" /\ ~rows[l].isOutdated}

\* json.loads(response_text): a synthesis with every field, one with none
AggFull == [competitiveTier |-> "S", bestTargets |-> "list", conflicts |-> "some"]
AggBare == [competitiveTier |-> "absent", bestTargets |-> "absent", conflicts |-> "absent"]
AggResponses == {AggFull, AggBare}
NoResponse == [competitiveTier |-> "none", bestTargets |-> "none", conflicts |-> "none"]

\* the keyword arguments built at lines 2375-2390
ContextData(aggregated, valid) ==
    [competitiveTier |-> IF aggregated.competitiveTier = "absent"
                         THEN "null" ELSE aggregated.competitiveTier,
     bestTargets |-> IF aggregated.bestTargets = "absent" THEN "[]" ELSE "[x]",
     sourceCount |-> Cardinality(valid),
     conflicts |-> IF aggregated.conflicts = "some" THEN "[c]" ELSE "null"]

\* WHERE "datasheetId" = .. AND "factionId" IS NOT DISTINCT FROM ..
\*   AND "detachmentId" IS NOT DISTINCT FROM ..
ContextOf(rows, ds, f, d) ==
    {c \in rows : c.datasheetId = ds /\ c.factionId = f /\ c.detachmentId = d}

NewContext(id, ds, f, d, data) ==
    [id |-> id, datasheetId |-> ds, factionId |-> f, detachmentId |-> d,
     competitiveTier |-> data.competitiveTier, bestTargets |-> data.bestTargets,
     sourceCount |-> data.sourceCount, conflicts |-> data.conflicts]

\* gen_random_uuid(): an id no row has; rows are never deleted, so the scope
\* and the number of rows it already has name a fresh one
FreshContextId(rows, ds, f, d) == <<f, d, Cardinality(ContextOf(rows, ds, f, d)) + 1>>

\* an update that leaves a column alone when the new value is None
UpsertContextSkipNull(rows, ds, f, d, data) ==
    IF ContextOf(rows, ds, f, d) # {}
    THEN LET existing == CHOOSE c \in ContextOf(rows, ds, f, d) : TRUE IN
         {IF c.id = existing.id
          THEN [c EXCEPT !.competitiveTier = IF data.competitiveTier = "null"
                                              THEN @ ELSE data.competitiveTier,
                         !.bestTargets = data.bestTargets,
                         !.sourceCount = data.sourceCount,
                         !.conflicts = IF data.conflicts = "null" THEN @ ELSE data.conflicts]
          ELSE c : c \in rows}
    ELSE rows \cup {NewContext(FreshContextId(rows, ds, f, d), ds, f, d, data)}

\* lines 333-394: SELECT the row of the scope, then UPDATE it or INSERT one
db_upsert_datasheet_competitive_context(rows, ds, f, d, data) ==
    IF ContextOf(rows, ds, f, d) # {}
    THEN LET existing == CHOOSE c \in ContextOf(rows, ds, f, d) : TRUE IN
         {IF c.id = existing.id
          THEN [c EXCEPT !.competitiveTier = data.competitiveTier,
                         !.bestTargets = data.bestTargets,
                         !.sourceCount = data.sourceCount,
                         !.conflicts = data.conflicts]
          ELSE c : c \in rows}
    ELSE rows \cup {NewContext(FreshContextId(rows, ds, f, d), ds, f, d, data)}

\* what a request did: its entry point and scope, the code returned and the
\* error printed with it, whether the LLM was called, how the result was
\* stored ("insert", "update", "fallback" or "none") and the synthesis
Report(entry, f, d, code, why, called, path, resp) ==
    [entry |-> entry, factionId |-> f, detachmentId |-> d, code |-> code,
     why |-> why, called |-> called, path |-> path, resp |-> resp]

NoRun == Report("none", "null", "null", "none", "none", FALSE, "none", NoResponse)

\* return 1 before the LLM is called
Rejected(entry, f, d, why) ==
    /\ aggRun' = Report(entry, f, d, "1", why, FALSE, "none", NoResponse)
    /\ UNCHANGED contexts

\* lines 2175-2402 for datasheet_id = AggDatasheet: no key (2183-2186), the
\* listing raises (2251-2253), no valid source (2255-2261), the LLM call
\* fails (2296-2330), the upsert or its fallback file (2375-2400)
aggregate_datasheet_context(entry, f, d) ==
    \/ /\ ~hasKey
       /\ Rejected(entry, f, d, "no_key")
    \/ /\ hasKey
       /\ Rejected(entry, f, d, "db_error")
    \/ /\ hasKey
       /\ LET valid == db_get_datasheet_sources_for_aggregation(aggLinks) IN
          IF valid = {}
          THEN /\ aggRun' = Report(entry, f, d, "0", "none", FALSE, "none", NoResponse)
               /\ UNCHANGED contexts
          ELSE \/ /\ aggRun' = Report(entry, f, d, "1", "llm_error", TRUE, "none", NoResponse)
                  /\ UNCHANGED contexts
               \/ \E r \in AggResponses, w \in WriteOutcomes :
                     LET path == IF w = "raise" THEN "fallback"
                                 ELSE IF ContextOf(contexts, AggDatasheet, f, d) # {}
                                 THEN "update" ELSE "insert"
                     IN  /\ contexts' = IF w = "ok"
                                        THEN db_upsert_datasheet_competitive_context(
                                                 contexts, AggDatasheet, f, d,
                                                 ContextData(r, valid))
                                        ELSE contexts
                         /\ aggRun' = Report(entry, f, d, "0", "none", TRUE, path, r)

\* main, --aggregate (lines 3038-3051)
MainAggregate ==
    /\ \E f \in ScopeFactions, d \in ScopeDetachments :
          IF d # "null" /\ f = "null"
          THEN Rejected("aggregate", f, d, "invalid")
          ELSE aggregate_datasheet_context("aggregate", f, d)
    /\ UNCHANGED aggLinks
    /\ UNCHANGED nonAgg

\* main, --aggregate-all (lines 3026-3036) and aggregate_all_for_faction:
\* the faction is required; the datasheets are those with a valid source
MainAggregateAll ==
    /\ \E f \in ScopeFactions, d \in ScopeDetachments :
          IF f = "null"
          THEN Rejected("aggregate_all", f, d, "invalid")
          ELSE IF db_get_datasheets_with_sources(aggLinks, f) = {}
          THEN Rejected("aggregate_all", f, d, "no_datasheets")
          ELSE aggregate_datasheet_context("aggregate_all", f, d)
    /\ UNCHANGED aggLinks
    /\ UNCHANGED nonAgg

\* aggregate_datasheet_context called by other code
DirectAggregate ==
    /\ \E f \in ScopeFactions, d \in ScopeDetachments :
          aggregate_datasheet_context("direct", f, d)
    /\ UNCHANGED aggLinks
    /\ UNCHANGED nonAgg

\* between requests a link is extracted, or is marked outdated
LinkChange ==
    /\ \E l \in AggLinkIds, v \in LinkStates :
          /\ aggLinks[l] # v
          /\ aggLinks[l].factionId = v.factionId
          /\ aggLinks' = [aggLinks EXCEPT ![l] = v]
    /\ UNCHANGED <<contexts, aggRun>>
    /\ UNCHANGED nonAgg

NextAgg == MainAggregate \/ MainAggregateAll \/ DirectAggregate \/ LinkChange

(***************************************************************************)
(* The fetch of a youtube source: captions, audio download, Whisper        *)
(***************************************************************************)
\* chunk_duration_sec = 600 and the 900 second threshold, in minutes
ChunkMinutes == 10
ChunkingMinutes == 15
\* get_audio_duration(audio_path), in minutes
AudioMinutes == {5, 16, 20}

\* what try_fetch_captions can come to (lines 637-682)
CaptionOutcomes == {"transcript", "empty", "unavailable", "failed"}

\* (success, transcript, error) of try_fetch_captions
try_fetch_captions(out) ==
    [success |-> out = "transcript",
     transcript |-> IF out = "transcript" THEN "captions" ELSE "none"]

\* Whisper whatever the captions gave
WhisperUnlessDisabled(success, no_whisper) == ~no_whisper

\* line 2474: if not success and not no_whisper
UseWhisper(success, no_whisper) == ~success /\ ~no_whisper

\* line 746: num_chunks = int(duration / chunk_duration_sec) + 1
NumChunks(minutes) == (minutes \div ChunkMinutes) + 1

\* the fixed-duration segments the audio really has
Segments(minutes) == 1..((minutes + ChunkMinutes - 1) \div ChunkMinutes)

\* lines 826-828: needs_chunking
NeedsChunking(big, minutes) == big \/ minutes > ChunkingMinutes

\* lines 741-771: the chunk files handed back, in order; a chunk whose file
\* is missing or not above 1000 bytes is left out of the list
split_audio_into_chunks(minutes, made) ==
    IF NumChunks(minutes) = 1 THEN <<1>>
    ELSE Ascending(made \cap (1..NumChunks(minutes)))

\* line 841: the marker the loop appends for the chunk at list index i
FailureMarker(i) == <<"marker", i>>

\* r.text.strip() for the chunk file of segment k
SegmentText(k) == <<"text", k>>

NoStt == [pc |-> "idle", minutes |-> 0, big |-> FALSE, chunked |-> FALSE,
          chunks |-> <<>>, made |-> {}, i |-> 0, transcripts |-> <<>>]

\* nothing written to the source yet
NoStored == [status |-> "none", content |-> "none"]

NoVideo == [pc |-> "idle", no_whisper |-> FALSE, captions |-> "none",
            content |-> "none", stored |-> NoStored]

\* lines 2456-2470: video id and metadata, which may raise
VideoStart ==
    /\ video.pc = "idle"
    /\ \E nw \in BOOLEAN, info \in {"ok", "raise"} :
          video' = [video EXCEPT !.no_whisper = nw,
                                 !.pc = IF info = "ok" THEN "captions" ELSE "failed"]
    /\ UNCHANGED stt
    /\ UNCHANGED nonMedia

\* lines 2472-2474
TryCaptions ==
    /\ video.pc = "captions"
    /\ \E out \in CaptionOutcomes :
          LET r == try_fetch_captions(out) IN
          video' = [video EXCEPT !.captions = out,
                                 !.content = r.transcript,
                                 !.pc = IF UseWhisper(r.success, video.no_whisper)
                                        THEN "download" ELSE "store"]
    /\ UNCHANGED stt
    /\ UNCHANGED nonMedia

\* lines 2476-2477: download_audio, which may raise
DownloadAudio ==
    /\ video.pc = "download"
    /\ \/ /\ video' = [video EXCEPT !.pc = "failed"]
          /\ UNCHANGED stt
       \/ \E m \in AudioMinutes, big \in BOOLEAN :
             /\ video' = [video EXCEPT !.pc = "whisper"]
             /\ stt' = [NoStt EXCEPT !.pc = "start", !.minutes = m, !.big = big]
    /\ UNCHANGED nonMedia

\* whisper_transcribe up to its loop (lines 814-833), or all of it for a
\* small file (845-846)
WhisperStart ==
    /\ video.pc = "whisper"
    /\ stt.pc = "start"
    /\ IF ~hasSttKey
       THEN /\ stt' = [stt EXCEPT !.pc = "raised"]
            /\ video' = [video EXCEPT !.pc = "failed"]
       ELSE IF NeedsChunking(stt.big, stt.minutes)
       THEN \/ /\ stt' = [stt EXCEPT !.pc = "raised"]
               /\ video' = [video EXCEPT !.pc = "failed"]
            \/ \E made \in SUBSET (1..NumChunks(stt.minutes)) :
                  /\ stt' = [stt EXCEPT !.pc = "loop", !.chunked = TRUE, !.made = made,
                                        !.chunks = split_audio_into_chunks(stt.minutes, made),
                                        !.i = 1]
                  /\ UNCHANGED video
       ELSE \/ /\ stt' = [stt EXCEPT !.pc = "raised"]
               /\ video' = [video EXCEPT !.pc = "failed"]
            \/ /\ stt' = [stt EXCEPT !.pc = "returned",
                                     !.transcripts = <<SegmentText(1)>>]
               /\ video' = [video EXCEPT !.content = "whisper", !.pc = "store"]
    /\ UNCHANGED nonMedia

\* lines 835-841: one chunk of the loop
WhisperChunk ==
    /\ stt.pc = "loop"
    /\ stt.i <= Len(stt.chunks)
    /\ \E ok \in BOOLEAN :
          stt' = [stt EXCEPT !.transcripts =
                                 Append(@, IF ok THEN SegmentText(stt.chunks[stt.i])
                                           ELSE FailureMarker(stt.i)),
                             !.i = @ + 1]
    /\ UNCHANGED video
    /\ UNCHANGED nonMedia

\* line 843: the join of the transcripts, "" when there is none
WhisperEnd ==
    /\ stt.pc = "loop"
    /\ stt.i > Len(stt.chunks)
    /\ stt' = [stt EXCEPT !.pc = "returned"]
    /\ video' = [video EXCEPT !.content = IF stt.transcripts = <<>> THEN "none"
                                          ELSE "whisper",
                              !.pc = "store"]
    /\ UNCHANGED nonMedia

\* lines 2496-2515: content is stored with status fetched; no content, an
\* exception before, or a raising write end in the except clause
VideoStore ==
    /\ video.pc \in {"store", "failed"}
    /\ \E w \in WriteOutcomes :
          video' = [video EXCEPT
                       !.pc = "done",
                       !.stored = IF video.pc = "store" /\ video.content # "none" /\ w = "ok"
                                  THEN [status |-> "fetched", content |-> video.content]
                                  ELSE [status |-> "error", content |-> "none"]]
    /\ UNCHANGED stt
    /\ UNCHANGED nonMedia

NextVideo ==
    \/ VideoStart \/ TryCaptions \/ DownloadAudio
    \/ WhisperStart \/ WhisperChunk \/ WhisperEnd
    \/ VideoStore

MediaIdle ==
    /\ video = NoVideo
    /\ stt = NoStt

(***************************************************************************)
(* detect_source_type                                                      *)
(***************************************************************************)
\* The host of a url is a sequence of pieces of text: "w" is the text
\* "www.", "Y" youtube.com, "R" reddit.com, "C" discord.com, "G" an
\* ARTICLE_SITES entry, "F" a FORUM_SITES entry other than reddit.com, "x"
\* text that contains none of these, "[" a bracket that is never closed.
MaxPieces == 3
Pieces == {"w", "Y", "R", "C", "G", "F", "x", "["}

RECURSIVE HostsOfLen(_)
HostsOfLen(n) ==
    IF n = 0 THEN {<<>>}
    ELSE {Append(h, p) : h \in HostsOfLen(n - 1), p \in Pieces}

Hosts == UNION {HostsOfLen(n) : n \in 1..MaxPieces}

\* SOURCE_TYPES (line 459)
SOURCE_TYPES == {"youtube", "reddit", "article", "forum", "discord", "other"}

\* site in domain
Contains(domain, site) == \E i \in 1..Len(domain) : domain[i] = site

\* lines 493-494: if domain.startswith("www."): domain = domain[4:]
StripWww(domain) ==
    IF Len(domain) > 0 /\ domain[1] = "w" THEN Tail(domain) ELSE domain

\* lines 487-519; urlparse raises ValueError for a netloc with an unclosed
\* bracket
detect_source_type(host) ==
    IF Contains(host, "[") THEN "ValueError"
    ELSE LET domain == StripWww(host) IN
         IF Contains(domain, "Y") THEN "youtube"
         ELSE IF Contains(domain, "R") THEN "reddit"
         ELSE IF Contains(domain, "C") THEN "discord"
         ELSE IF Contains(domain, "G") THEN "article"
         ELSE IF Contains(domain, "F") THEN "forum"
         ELSE "other"

\* a call of detect_source_type
Route ==
    /\ routed = "none"
    /\ routed' = detect_source_type(locator)
    /\ UNCHANGED locator
    /\ UNCHANGED nonRoute

RouteIdle ==
    /\ locator = <<>>
    /\ routed = "none"

AggIdle ==
    /\ contexts = {}
    /\ aggLinks = [l \in AggLinkIds |-> LinkRowOf("pending", FALSE, "f")]
    /\ aggRun = NoRun

\* no request yet; the links are pending, their sources of any faction
AggStart ==
    /\ contexts = {}
    /\ aggLinks \in [AggLinkIds -> {LinkRowOf("pending", FALSE, f) : f \in SourceFactions}]
    /\ aggRun = NoRun

DecoderIdle ==
    /\ origin = [entries |-> <<>>, pre |-> "none", suf |-> "none"]
    /\ text = <<>>
    /\ dstage = "idle"
    /\ decoded = NotDecoded

Init == PipelineInit /\ DecoderIdle /\ NetIdle /\ AggIdle /\ MediaIdle /\ RouteIdle

Next ==
    \/ Invoke
    \/ FetchStart \/ FetchStep \/ FetchEnd
    \/ CurateStart \/ CurateStep \/ CurateEnd
    \/ ExtractStart \/ ExtractStep \/ ExtractLoopEnd \/ ExtractFinishStep \/ ExtractEnd

Spec == Init /\ [][Next]_vars

\* lines 2636-2650: with tracing on, langfuse.trace is called before the
\* try of the loop body; when it raises, the exception leaves the phase
CurateTraceAbort ==
    /\ pc = "curate_loop"
    /\ queue # <<>>
    /\ HasDatasheets(Head(queue))
    /\ tracing
    /\ Raise("curate")
    /\ UNCHANGED <<tables, hasKey, hasSttKey, tracing, cmd, processed, dbFailures>>
    /\ UNCHANGED nonPipeline

\* the process is stopped between two steps: every write made so far is
\* committed (autocommit, line 165), what the run held in memory is lost
Interrupt ==
    /\ pc # "idle"
    /\ pc' = "idle"
    /\ queue' = <<>>
    /\ processed' = {}
    /\ UNCHANGED <<tables, hasKey, hasSttKey, tracing, cmd, exits, dbFailures>>
    /\ UNCHANGED nonPipeline

\* the decode step on its own, with the pipeline at rest
\* the pipeline at rest: the credential set, article sources
PipelineAtRest ==
    /\ PipelineInit
    /\ hasKey
    /\ \A s \in SourceIds : sources[s].kind = "article"

\* the curation loop about to process fetched article sources
PipelineCurating ==
    /\ sources = [s \in SourceIds |->
                     db_update_source_status([t \in SourceIds |-> NewSource("article")],
                                             s, "fetched", "text", "none")[s]]
    /\ links = {}
    /\ nextLinkId = 1
    /\ hasKey = TRUE
    /\ hasSttKey = TRUE
    /\ tracing = FALSE
    /\ cmd = "curate"
    /\ pc = "curate_loop"
    /\ queue = db_get_pending_sources("fetched")
    /\ processed = {}
    /\ exits = [ph \in PhaseNames |-> "none"]
    /\ dbFailures = 0

\* the decode step, and the curation of the loop's first source with what
\* it decoded
InitDecode == DecoderInit /\ PipelineCurating /\ NetIdle /\ AggIdle /\ MediaIdle /\ RouteIdle

SpecDecode == InitDecode /\ [][NextDecode \/ CurateApply]_vars

\* the network operations on their own
InitNet == NetIdle /\ PipelineAtRest /\ DecoderIdle /\ AggIdle /\ MediaIdle /\ RouteIdle

SpecNet == InitNet /\ [][NextNet]_vars

\* aggregation requests on their own, with and without the credential
InitAgg ==
    /\ AggStart
    /\ PipelineInit
    /\ \A s \in SourceIds : sources[s].kind = "article"
    /\ DecoderIdle
    /\ NetIdle
    /\ MediaIdle
    /\ RouteIdle

SpecAgg == InitAgg /\ [][NextAgg]_vars

\* two links of the datasheet, both extracted and current, from sources of
\* faction f: each extraction found the unit with a tier, or did not find it
SynthLinkIds == {"l1", "l2"}
SynthRows ==
    {ExtractedRow("extracted", FALSE, "f", TRUE, "S"),
     ExtractedRow("extracted", FALSE, "f", TRUE, "C"),
     ExtractedRow("extracted", FALSE, "f", FALSE, "none")}

InitSynth ==
    /\ contexts = {}
    /\ aggLinks \in [SynthLinkIds -> SynthRows]
    /\ aggRun = NoRun
    /\ PipelineInit
    /\ \A s \in SourceIds : sources[s].kind = "article"
    /\ hasKey
    /\ DecoderIdle
    /\ NetIdle
    /\ MediaIdle
    /\ RouteIdle

\* aggregation requests over those links
SpecSynth == InitSynth /\ [][MainAggregate \/ MainAggregateAll \/ DirectAggregate]_vars

\* the pipeline over video and article sources, with and without each key
InitKeys == PipelineInitKeys /\ DecoderIdle /\ NetIdle /\ AggIdle /\ MediaIdle /\ RouteIdle

SpecKeys == InitKeys /\ [][Next]_vars

\* invocations that may be interrupted, over article sources, with the
\* credentials set and a datastore that does not fail
InitRecover ==
    /\ PipelineInitKeys
    /\ hasKey
    /\ hasSttKey
    /\ \A s \in SourceIds : sources[s].kind = "article"
    /\ DecoderIdle /\ NetIdle /\ AggIdle /\ MediaIdle /\ RouteIdle

SpecRecover == InitRecover /\ [][Next \/ Interrupt]_vars

\* a link of source 1 and datasheet "a" that extraction has filled in
ExtractedLink ==
    [id |-> 1, datasheetId |-> "a", sourceId |-> 1, mentionSummary |-> <<"o">>,
     status |-> "extracted", found |-> "true", confidence |-> 80, updatedAt |-> "later"]

\* the datastore when source 1, whose link is extracted, is in status
\* fetched again and so waits for curation
InitRecurate ==
    /\ sources = [s \in SourceIds |->
                     IF s = 1
                     THEN db_update_source_status(
                              [t \in SourceIds |-> NewSource("article")],
                              1, "fetched", "text", "none")[1]
                     ELSE NewSource("article")]
    /\ links = {ExtractedLink}
    /\ nextLinkId = 2
    /\ hasKey = TRUE
    /\ hasSttKey = TRUE
    /\ tracing = FALSE
    /\ cmd = "none"
    /\ pc = "idle"
    /\ queue = <<>>
    /\ processed = {}
    /\ exits = [ph \in PhaseNames |-> "none"]
    /\ dbFailures = 0
    /\ DecoderIdle /\ NetIdle /\ AggIdle /\ MediaIdle /\ RouteIdle

SpecRecurate == InitRecurate /\ [][Next]_vars

\* pending and fetched sources of a faction with datasheets, of one without,
\* and of no faction; a datastore that does not fail
InitCatalog ==
    /\ sources \in [SourceIds ->
                      {SourceOf("article", c) : c \in CatalogKinds}
                        \cup {db_update_source_status(
                                  [t \in SourceIds |-> SourceOf("article", c)],
                                  1, "fetched", "text", "none")[1] : c \in CatalogKinds}]
    /\ links = {}
    /\ nextLinkId = 1
    /\ hasKey = TRUE
    /\ hasSttKey = TRUE
    /\ tracing = FALSE
    /\ cmd = "none"
    /\ pc = "idle"
    /\ queue = <<>>
    /\ processed = {}
    /\ exits = [ph \in PhaseNames |-> "none"]
    /\ dbFailures = MaxDbFailures
    /\ DecoderIdle /\ NetIdle /\ AggIdle /\ MediaIdle /\ RouteIdle

SpecCatalog == InitCatalog /\ [][Next]_vars

\* the pipeline over article sources with the tracing integration on or
\* off, the credentials set and a datastore that does not fail
InitTrace ==
    /\ sources = [s \in SourceIds |-> NewSource("article")]
    /\ links = {}
    /\ nextLinkId = 1
    /\ hasKey = TRUE
    /\ hasSttKey = TRUE
    /\ tracing \in BOOLEAN
    /\ cmd = "none"
    /\ pc = "idle"
    /\ queue = <<>>
    /\ processed = {}
    /\ exits = [ph \in PhaseNames |-> "none"]
    /\ dbFailures = MaxDbFailures
    /\ DecoderIdle /\ NetIdle /\ AggIdle /\ MediaIdle /\ RouteIdle

SpecTrace == InitTrace /\ [][Next \/ CurateTraceAbort]_vars

\* detect_source_type over every host of up to MaxPieces pieces
InitRoute ==
    /\ locator \in Hosts
    /\ routed = "none"
    /\ PipelineAtRest /\ DecoderIdle /\ NetIdle /\ AggIdle /\ MediaIdle

SpecRoute == InitRoute /\ [][Route]_vars

\* the fetch of one youtube source, with and without the speech-to-text key
InitVideo == MediaIdle /\ PipelineInitKeys /\ DecoderIdle /\ NetIdle /\ AggIdle /\ RouteIdle

SpecVideo == InitVideo /\ [][NextVideo]_vars

(***************************************************************************)
(* Properties of the extraction phase                                      *)
(***************************************************************************)
\* the extraction loop processes the link at the head of its queue
ExtractsHead == pc = "extract_loop" /\ queue # <<>> /\ queue' = Tail(queue)

\* after the step that link is extracted, with a finding recorded
HeadExtracted ==
    \E l \in links' : /\ l.id = Head(queue)
                      /\ l.status = "extracted"
                      /\ l.found \in {"true", "false"}

\* the step's datastore write raised and left the table as it was
HeadWriteRaised == dbFailures' > dbFailures /\ links' = links

\* once extracted, a link stays so until the phase ends
StaysExtracted ==
    pc \in {"extract_loop", "extract_finish"} =>
        \A l \in links : l.status = "extracted" => l \in links'

C5_Original ==
    \A s \in SourceIds :
        sources[s].status = "extracted" =>
            \A l \in links : l.sourceId = s => l.status = "extracted"

(***************************************************************************)
(* Properties of the fetch phase and of failure isolation                  *)
(***************************************************************************)
\* the source is recorded as fetched with content, or as failed with a message
Settled(s) ==
    \/ sources[s].status = "fetched" /\ sources[s].content # "none"
    \/ sources[s].status = "error" /\ sources[s].errorMessage # "none"

\* C6: when the fetch loop is over, every Source that was pending at its
\* start is fetched with content or in error with a message; none of any
\* kind is still pending
C6_Original ==
    (pc = "fetch_loop" /\ queue = <<>>) =>
        \A s \in SourceIds :
            sources[s].status \in {"pending", "fetched", "error"} => Settled(s)

LoopPcs == {"fetch_loop", "curate_loop", "extract_loop"}

\* C7: a phase's loop is left only when no record other than the one being
\* processed is still waiting: a failure on one record does not keep the
\* remaining ones from being processed
C7_Original == [][(pc \in LoopPcs /\ pc' # pc) => Len(queue) <= 1]_vars

(***************************************************************************)
(* Properties of the curation phase                                        *)
(***************************************************************************)
\* a curation step that does not curate its source although no datastore
\* call raised: the LLM call failed, or its text could not be decoded
CurateFailsHead ==
    /\ pc = "curate_loop" /\ queue # <<>> /\ queue' = Tail(queue)
    /\ dbFailures' = dbFailures
    /\ sources'[Head(queue)].status # "curated"

\* C8: a record-level curation failure sets the Source to error and stores
\* the reason as its error message
C8_Original ==
    [][CurateFailsHead => /\ sources'[Head(queue)].status = "error"
                          /\ sources'[Head(queue)].errorMessage # "none"]_vars

Returned(ph) == exits[ph] \in {"0", "1"}

\* C9: in a run-all invocation curation runs only after the fetch phase has
\* returned, extraction only after the curation phase has returned, and the
\* invocation is over only when the extraction phase has returned
C9_Original ==
    cmd = "all" =>
        /\ pc \in {"curate_start", "curate_loop"} => Returned("fetch")
        /\ pc \in {"extract_start", "extract_loop", "extract_finish"} =>
               Returned("fetch") /\ Returned("curate")
        /\ pc = "idle" => Returned("fetch") /\ Returned("curate") /\ Returned("extract")

KeyOf(l) == <<l.datasheetId, l.sourceId>>
Keys(rows) == {KeyOf(l) : l \in rows}

\* at most one link per (datasheet, source)
UniqueKeys(rows) == \A l1, l2 \in rows : KeyOf(l1) = KeyOf(l2) => l1 = l2

\* every row is still there, under the same id and key
KeepsRows == \A l \in links : \E m \in links' : m.id = l.id /\ KeyOf(m) = KeyOf(l)

\* the curation loop processes a source that already has links
CuratesAgain ==
    /\ pc = "curate_loop" /\ queue # <<>> /\ queue' = Tail(queue)
    /\ \E l \in links : l.sourceId = Head(queue)

\* C10: there is never more than one link per (datasheet, source); no step
\* deletes a link or changes its key; curating a source again with a result
\* naming the same datasheets leaves the set of keys unchanged
C10_UpsertKeepsKeysUnique ==
    [][/\ UniqueKeys(links')
       /\ KeepsRows
       /\ CuratesAgain => Keys(links') = Keys(links)]_vars

\* a link created by one curation of its source (its status write raised)
\* and updated in place by a later one that names the datasheet once
C10_Witness ==
    \E l \in links : /\ l.updatedAt = "later"
                     /\ l.status = "pending"
                     /\ l.mentionSummary = <<>>
                     /\ sources[l.sourceId].status = "curated"
                     /\ Cardinality({m \in links : m.sourceId = l.sourceId}) = 1

(***************************************************************************)
(* Re-entry of the extraction phase                                        *)
(***************************************************************************)
ExtractPcs == {"extract_start", "extract_loop", "extract_finish"}

\* every link waiting for an extraction call is pending
QueuedArePending ==
    pc = "extract_loop" => \A i \in 1..Len(queue) : LinkRow(queue[i]).status = "pending"

\* the phase leaves every link that is already extracted exactly as it is
ExtractedUntouched ==
    pc \in ExtractPcs => \A l \in links : l.status = "extracted" => l \in links'

\* started with no pending link, the phase returns at once and writes nothing
NothingPendingNoWrite ==
    (pc = "extract_start" /\ \A l \in links : l.status # "pending") =>
        /\ pc' \notin ExtractPcs
        /\ links' = links
        /\ sources' = sources

\* C11: the extraction phase queues only pending links, never changes a
\* link that is already extracted, and writes nothing when started with no
\* pending link
C11_OnlyPendingLinks ==
    [][QueuedArePending' /\ ExtractedUntouched /\ NothingPendingNoWrite]_vars

\* the loop has processed one source's link and passed over the link of
\* another source, extracted by an earlier run
C11_Witness ==
    /\ pc = "extract_loop" /\ queue = <<>> /\ processed # {}
    /\ \E l \in links : /\ l.status = "extracted"
                        /\ l.sourceId \notin processed
                        /\ sources[l.sourceId].status = "extracted"

(***************************************************************************)
(* Properties of the network operations (SpecNet)                          *)
(***************************************************************************)
LastOutcome == netHistory[Len(netHistory)]

\* C12: through the wrapper only a connection-level failure is followed by
\* another attempt, an HTTP error status ends the call at once, the waits
\* are 1s, 2s, 4s, and a failure that persists is propagated only after 3
\* retries
C12_Original ==
    netOp \in WrappedOps =>
        /\ \A i \in 1..(Len(netHistory) - 1) : netHistory[i] \in ConnErrors
        /\ (netHistory # <<>> /\ LastOutcome = "http_error") => netState # "trying"
        /\ \A i \in 1..Len(netSlept) : netSlept[i] = 2 ^ (i - 1)
        /\ (netState = "raised" /\ LastOutcome \in ConnErrors) => netSlept = <<1, 2, 4>>

\* C13: whatever the operation, a connection-level failure of its first
\* attempt is followed by another attempt before the operation fails
C13_Original ==
    (netState = "raised" /\ netHistory[1] \in ConnErrors) => Len(netHistory) > 1

TheLink == CHOOSE l \in netLink : l.id = PendingLink.id

\* C14: the link is stored as extracted with found = false only when the
\* call returned a result saying the entity is not discussed
C14_Original ==
    (netOp = "llm_extract" /\ netState = "recorded"
        /\ TheLink.status = "extracted" /\ TheLink.found = "false")
    => LastOutcome = "not_found"

\* C15: a positive finding is stored as extracted with found = true and the
\* confidence of its context (50 when the response reports none); a negative
\* finding is stored as extracted with found = false and confidence 0
C15_FindingStored ==
    netState = "recorded" =>
        /\ LastOutcome = "found_80" =>
               TheLink.status = "extracted" /\ TheLink.found = "true" /\ TheLink.confidence = 80
        /\ LastOutcome = "found_nc" =>
               TheLink.status = "extracted" /\ TheLink.found = "true" /\ TheLink.confidence = 50
        /\ LastOutcome = "not_found" =>
               TheLink.status = "extracted" /\ TheLink.found = "false" /\ TheLink.confidence = 0

\* a positive finding, reached after one retry, has been stored
C15_Witness ==
    /\ netState = "recorded"
    /\ Len(netHistory) = 2
    /\ LastOutcome = "found_80"
    /\ TheLink.found = "true"

(***************************************************************************)
(* Curation of a decoded response (SpecDecode)                             *)
(***************************************************************************)
\* the source the loop has just processed: the first fetched one
Curated1 == sources[1].status = "curated"

NoMatches == MentionedUnits(decoded.v) = <<>>

AggregationStep ==
    /\ aggLinks' = aggLinks
    /\ <<contexts, aggRun>>' # <<contexts, aggRun>>

\* the links of the entity that are extracted and not outdated
ValidLinks ==
    {l \in AggLinkIds : aggLinks[l].status = "extracted" /\ ~aggLinks[l].isOutdated}

NoValidLink == ValidLinks = {}

\* the errors that end a request before the sources are counted
EarlyErrors == {"no_key", "db_error", "invalid", "no_datasheets"}

UniqueContexts ==
    \A c1, c2 \in contexts :
        (/\ c1.datasheetId = c2.datasheetId
         /\ c1.factionId = c2.factionId
         /\ c1.detachmentId = c2.detachmentId) => c1 = c2

\* the scope a stored run wrote holds exactly that run's values
HoldsLatestRun ==
    (AggregationStep /\ aggRun'.path \in {"insert", "update"})
      => LET data == ContextData(aggRun'.resp, ValidLinks)
             rows == ContextOf(contexts', AggDatasheet,
                               aggRun'.factionId, aggRun'.detachmentId)
         IN  /\ Cardinality(rows) = 1
             /\ \A c \in rows :
                   /\ c.competitiveTier = data.competitiveTier
                   /\ c.bestTargets = data.bestTargets
                   /\ c.sourceCount = data.sourceCount
                   /\ c.conflicts = data.conflicts

\* C18: there is at most one context per (entity, grouping-or-null,
\* sub-grouping-or-null), and after a run that stores its synthesis every
\* field of the scope's context holds that run's value, conflicts cleared
\* when the run reports none
C18_OneContextLatestValues == []UniqueContexts /\ [][HoldsLatestRun]_vars

C18_Witness ==
    /\ aggRun.path = "update"
    /\ aggRun.resp = AggBare
    /\ \E c \in ContextOf(contexts, AggDatasheet, aggRun.factionId, aggRun.detachmentId) :
          /\ c.conflicts = "null"
          /\ c.competitiveTier = "null"
    /\ Cardinality(contexts) > 1

\* C19 as stated: whichever entry point receives the request, no context
\* with a null faction and a non-null detachment is ever created
C19_Original ==
    \A c \in contexts : ~(c.factionId = "null" /\ c.detachmentId # "null")

CuratePcs == {"curate_start", "curate_loop"}

\* without the text-generation key a curation or extraction phase changes
\* no Source and no link
NoKeyNoWrite == (~hasKey /\ pc \in CuratePcs \cup ExtractPcs) => tables' = tables

\* no Source is written because the speech-to-text key is missing
NoSttKeyNoWrite ==
    \A s \in SourceIds :
        sources'[s] # sources[s] => sources'[s].errorMessage # "no_stt_key"

\* C20 as stated: when a credential a phase needs is absent, the phase
\* aborts before any Source or link is modified, in the curation and
\* extraction phases (text-generation key) and in the fetch phase
\* (speech-to-text key)
C20_Original == [][NoKeyNoWrite /\ NoSttKeyNoWrite]_vars

\* the part of C20 about the text-generation key
C20_TextKeyPart == [][NoKeyNoWrite]_vars

(***************************************************************************)
(* Properties of the commands' exit status and of the fetch of a video     *)
(***************************************************************************)
\* the command is over
CommandOver == pc = "idle" /\ cmd \in {"all", "fetch", "curate", "extract"}

\* a phase of the command ended on a top-level error: it returned 1 (missing
\* credential, listing query failed) or let an exception out
TopLevelError == \E ph \in PhaseNames : exits[ph] \in {"1", "raised"}

\* C21: a command returns 0 when no top-level error occurred in it and
\* non-zero whenever one occurred, also in one phase of run-all-phases
C21_Original == CommandOver => (CommandStatus = "0" <=> ~TopLevelError)

\* the audio is downloaded only from the captions step, after a result
\* that is not a transcript
DownloadAfterCaptionsFailed ==
    video'.pc = "download" =>
        /\ video.pc = "captions"
        /\ video'.captions \in CaptionOutcomes \ {"transcript"}

\* once the captions gave a transcript there is no download and no Whisper
\* call, and the content written as fetched is the caption text
CaptionsSuffice ==
    video.captions = "transcript" =>
        /\ video'.pc \notin {"download", "whisper"}
        /\ stt' = stt
        /\ video'.stored.status = "fetched" => video'.stored.content = "captions"

\* C22: for a video Source the audio download and the speech-to-text call
\* come only after caption extraction failed; with a non-empty caption
\* transcript neither is made and the caption text is the stored content
C22_CaptionsBeforeWhisper == [][DownloadAfterCaptionsFailed /\ CaptionsSuffice]_vars

C22_Witness ==
    /\ video.pc = "done"
    /\ video.captions = "transcript"
    /\ video.stored = [status |-> "fetched", content |-> "captions"]
    /\ stt = NoStt

\* C23: a chunked transcription returns, in segment order, exactly one
\* item per fixed-duration segment of the audio, the segment's text or a
\* marker naming the segment's position, and content is obtained
C23_Original ==
    (stt.pc = "returned" /\ stt.chunked) =>
        /\ Len(stt.transcripts) = Cardinality(Segments(stt.minutes))
        /\ \A k \in 1..Len(stt.transcripts) :
               stt.transcripts[k] \in {SegmentText(k), FailureMarker(k)}
        /\ video.content = "whisper"

(***************************************************************************)
(* Properties of the Source rows over the phases                           *)
(***************************************************************************)
\* the content column stands for what the fetched write passes together:
\* content, contentTitle and authorName (lines 2501-2508)
ContentKept ==
    \A s \in SourceIds :
        sources[s].content # "none" => sources'[s].content = sources[s].content

\* content is written by the fetch loop only, to a Source that is pending
ContentWrittenToPending ==
    \A s \in SourceIds :
        sources'[s].content # sources[s].content =>
            /\ pc = "fetch_loop"
            /\ sources[s].status = "pending"

\* C24: once a Source has content no phase changes it, the curation and
\* extraction phases leave the content of every Source as it is, and the
\* fetch phase writes content only to Sources in status pending
C24_ContentImmutable == [][ContentKept /\ ContentWrittenToPending]_vars

C24_Witness ==
    \E s \in SourceIds :
        /\ sources[s].status = "extracted"
        /\ sources[s].content = "text"

\* the status a Source has after a step differs from the one before
Moves(s, from, to) == sources[s].status = from /\ sources'[s].status = to

StatusChanges(s) == sources'[s].status # sources[s].status

\* C25: Source status moves only forward along pending < fetched <
\* curated < extracted: fetched is entered from pending, curated only from
\* fetched, extracted only from curated (or kept), error only from pending
C25_StatusForward ==
    [][\A s \in SourceIds :
          StatusChanges(s) =>
              \/ Moves(s, "pending", "fetched")
              \/ Moves(s, "pending", "error")
              \/ Moves(s, "fetched", "curated")
              \/ Moves(s, "curated", "extracted")]_vars

C25_Witness ==
    \E s, t \in SourceIds :
        /\ sources[s].status = "extracted"
        /\ sources[t].status = "error"

\* a curated Source with no link that is not extracted (possibly no link)
ReadyToAdvance(s) ==
    /\ sources[s].status = "curated"
    /\ \A l \in links : l.sourceId = s => l.status = "extracted"

\* a run of the extraction phase that is over, with code 0, in its first
\* step: it found no pending link
ExtractRunWithoutLinks ==
    /\ pc = "extract_start"
    /\ pc' # "extract_loop"
    /\ exits'["extract"] = "0"

\* C26: a curated Source all of whose links are extracted, or that has no
\* link, is advanced to extracted by the next run of the extraction phase
C26_Original ==
    [][ExtractRunWithoutLinks =>
          \A s \in SourceIds : ReadyToAdvance(s) => sources'[s].status = "extracted"]_vars

\* a run of the whole pipeline is over, each phase having returned 0
FullRunDone ==
    /\ cmd = "all"
    /\ pc = "idle"
    /\ \A ph \in PhaseNames : exits[ph] = "0"

\* what a run that was never interrupted leaves, for any responses, when
\* no datastore call fails: every link extracted, and a Source with links
\* in status extracted
UninterruptedOutcome ==
    /\ \A l \in links : l.status = "extracted"
    /\ \A s \in SourceIds :
          (\E l \in links : l.sourceId = s) => sources[s].status = "extracted"

\* C27: after an interruption between two datastore writes, a run of the
\* whole pipeline to completion leaves the Sources and links in the
\* statuses an uninterrupted run reaches
C27_Original == FullRunDone => UninterruptedOutcome

\* C28: for the same records and the same response, a curation with the
\* tracing integration on leaves the same Sources, the same links and the
\* phase in the same way as with it off, also when a tracing call raises
\* or a unit lacks the name that is read for the span
C28_Original ==
    (pc = "curate_loop" /\ queue # <<>>) =>
        \A t \in CurationResponses, named \in BOOLEAN,
           trc \in {"ok", "span_raises", "trace_raises"} :
            CurateEffect(Head(queue), DecodeCuration(t), named, trc)
                = CurateEffect(Head(queue), DecodeCuration(t), named, "off")

(***************************************************************************)
(* Properties of the source router                                         *)
(***************************************************************************)
\* the host, without a leading www., is exactly an article domain
IsArticleHost(host) == StripWww(host) = <<"G">>

\* the host holds no known video, social-feed, chat, article or forum domain
NoKnownDomain(host) == \A p \in {"Y", "R", "C", "G", "F"} : ~Contains(host, p)

\* C29: the router returns one of the fixed kinds for every locator, with
\* no error path; it returns article exactly when the host is a known
\* article domain (exact match after removing a leading www.), and other
\* whenever the host matches no known domain
C29_Original ==
    routed # "none" =>
        /\ routed \in SOURCE_TYPES
        /\ routed = "article" <=> IsArticleHost(locator)
        /\ NoKnownDomain(locator) => routed = "other"

(***************************************************************************)
(* Properties of the inputs of an aggregation                              *)
(***************************************************************************)
\* valid_sources, the rows handed to build_aggregate_user_prompt
PromptSources == db_get_datasheet_sources_for_aggregation(aggLinks)

\* C30: an aggregation for a faction scope that calls the LLM is
\* synthesized only from extracted, non-stale links whose Source belongs to
\* that faction
C30_Original ==
    [][(AggregationStep /\ aggRun'.called /\ aggRun'.factionId # "null")
          => \A l \in PromptSources : aggLinks[l].factionId = aggRun'.factionId]_vars

\* the links handed to the synthesis in which the unit was found
FoundLinks ==
    {l \in DOMAIN aggLinks : /\ aggLinks[l].status = "extracted"
                             /\ ~aggLinks[l].isOutdated
                             /\ aggLinks[l].found}

\* two inputs of the synthesis rank the unit differently
TierDisagreement ==
    \E a, b \in FoundLinks : aggLinks[a].tierRank # aggLinks[b].tierRank

\* the run stored its synthesis in the table
StoredRun == aggRun'.path \in {"insert", "update"}

\* the context of the scope the run was asked for, after the run
WrittenContexts ==
    ContextOf(contexts', AggDatasheet, aggRun'.factionId, aggRun'.detachmentId)

\* C31: when aggregation runs over two sources whose extracted tier values
\* differ, the stored context has a conflicts entry; a disagreement between
\* inputs is never stored without one
C31_Original ==
    [][(AggregationStep /\ StoredRun /\ TierDisagreement)
          => \A c \in WrittenContexts : c.conflicts # "null"]_vars

\* C38: single-entity aggregation over a non-empty input set returns 0 only
\* if the context was written to the datastore, so that aggregate-all counts
\* a failed write as an error
C38_Original ==
    [][(AggregationStep /\ aggRun'.called /\ aggRun'.code = "0") => StoredRun]_vars

\* C39: links extracted with found = false are not inputs of aggregation:
\* they are not counted in sourceCount, and an entity whose only extracted
\* links are found = false gets no context written
C39_Original ==
    [][AggregationStep
         => /\ StoredRun => \A c \in WrittenContexts :
                               c.sourceCount = Cardinality(FoundLinks)
            /\ FoundLinks = {} => contexts' = contexts]_vars

(***************************************************************************)
(* Properties of the repair scanner (SpecDecode)                           *)
(***************************************************************************)
\* offset inside the entry's text of the brace opening a nested object, 0 if none
NestedOpenAt(e) == IF e = "nested" THEN 15 ELSE 0

\* offsets in FullText(o) of the braces that open an object: the top-level
\* one, the one inside the prefix field, each entry's and each nested one
StructuralOpens(o) ==
    {1} \cup (IF o.pre = "objs" THEN {7} ELSE {})
        \cup {EntryStart(o, j) : j \in 1..Len(o.entries)}
        \cup {EntryStart(o, j) + NestedOpenAt(o.entries[j]) - 1 :
                 j \in {k \in 1..Len(o.entries) : NestedOpenAt(o.entries[k]) > 0}}

\* offsets in FullText(o) of the braces that close an object below the
\* top-level one; the strings of "brace" and "esc" entries hold braces that
\* are in neither set
NestedCloses(o) ==
    (IF o.pre = "objs" THEN {13} ELSE {})
        \cup {EntryEnd(o, j) : j \in 1..Len(o.entries)}
        \cup {EntryStart(o, j) + NestedCloseAt(o.entries[j]) - 1 :
                 j \in {k \in 1..Len(o.entries) : NestedCloseAt(o.entries[k]) > 0}}

\* the greatest member of a set of offsets, 0 if it has none
MaxOffset(S) == IF S = {} THEN 0 ELSE CHOOSE x \in S : \A y \in S : y <= x

\* the nesting depth after the first n characters of FullText(o)
DepthAfter(o, n) ==
    Cardinality({x \in StructuralOpens(o) : x <= n})
      - Cardinality({x \in NestedCloses(o) \cup {Len(FullText(o))} : x <= n})

\* C32: the scanner changes depth only for braces outside quoted strings
\* (an escaped quote does not end the string, a brace inside a string is
\* ignored) and records the offset of the last closing brace outside any
\* string after which the depth is still >= 1, never the brace closing the
\* top-level object
C32_ScannerSkipsStrings ==
    LET st == ScanRange(text, 1, Len(text), ScanInit) IN
    /\ st.brace_depth = DepthAfter(origin, Len(text))
    /\ st.last_complete_brace = MaxOffset({x \in NestedCloses(origin) : x <= Len(text)})

\* a whole response with a brace in a string and one after an escaped quote:
\* the offset recorded is that of the last entry's closing brace
C32_Witness ==
    /\ text = FullText(origin)
    /\ Len(origin.entries) = 2
    /\ origin.entries[1] = "esc"
    /\ origin.entries[2] = "brace"
    /\ LastCompleteBrace(text) = EntryEnd(origin, 2)
    /\ LastCompleteBrace(text) < Len(text) - 1

\* the text has no closing brace of a nested object
NoNestedClose == {x \in NestedCloses(origin) : x <= Len(text)} = {}

\* the repaired text exists and fails the strict parse
SecondParseFails ==
    LET rep == repair_truncated_json(text) IN rep.some /\ ~JsonLoads(rep.text).ok

\* C33: when the strict parse of the response fails and the text has no
\* closing brace of a nested object, or the repaired text fails the strict
\* parse too, the decode step fails with the error of the first parse; no
\* link is written for the Source and it is not advanced to curated
C33_OriginalErrorNoWrite ==
    \/ /\ ~decoded.ok
       /\ decoded.raised = ErrorOn(text)
       /\ links = {}
       /\ \A s \in SourceIds : sources[s].status # "curated"
    \/ ~(/\ dstage # "raw"
         /\ NoNestedClose \/ SecondParseFails
         /\ ~JsonLoads(text).ok)

\* a response cut after the inner object of a nested entry: its repair does
\* not parse, and the loop body ran on it
C33_Witness ==
    /\ dstage = "applied"
    /\ ~JsonLoads(text).ok
    /\ ~NoNestedClose
    /\ SecondParseFails
    /\ decoded.repaired
    /\ decoded.raised.doc # repair_truncated_json(text).text

\* the datasheets named by the curation result held by the decoder
DecodedDatasheets ==
    {LinkDicts(MentionedUnits(decoded.v))[i].datasheetId :
        i \in 1..Len(MentionedUnits(decoded.v))}

\* C34: a Source is set to curated only after a link exists for every
\* entity of its decoded curation result; when upserting the links fails
\* part-way or entirely the Source is not advanced to curated
C34_Original ==
    (dstage = "applied" /\ Usable(decoded))
      => \A s \in SourceIds :
            sources[s].status = "curated"
              => \A ds \in DecodedDatasheets : LinkOf(links, ds, s) # {}

\* a curation step leaves every column of an existing link but its summary
\* (with relevance score and mention count) and its update time as it was
UpsertFrame ==
    pc = "curate_loop"
      => \A l \in links : \E l2 \in links' :
            l2 = [l EXCEPT !.mentionSummary = l2.mentionSummary,
                           !.updatedAt = l2.updatedAt]

\* an extracted link keeps its status, its extracted context and confidence
ExtractedStays ==
    \A l \in links :
        l.status = "extracted"
          => \E l2 \in links' : /\ l2.id = l.id
                                /\ l2.status = "extracted"
                                /\ l2.found = l.found
                                /\ l2.confidence = l.confidence

\* C35: upserting a link that exists for the same (entity, source) pair
\* changes only its score, mention count and summary; its status, extracted
\* context and confidence stay, so an extracted link stays extracted and is
\* not extracted again after re-curation
C35_UpsertKeepsExtraction == [][UpsertFrame /\ ExtractedStays]_vars

\* the extracted link was upserted by a re-curation and an extraction phase
\* has run since
C35_Witness ==
    /\ \E l \in links : /\ l.id = ExtractedLink.id
                        /\ l.mentionSummary # ExtractedLink.mentionSummary
                        /\ l.status = "extracted"
                        /\ l.confidence = ExtractedLink.confidence
    /\ sources[1].status \in {"curated", "extracted"}
    /\ exits["extract"] = "0"

\* C36: a fetched Source whose grouping has an empty entity catalog, or
\* that has no grouping, is completed by curation: its iteration of the
\* curation loop advances it to curated with no link
C36_Original ==
    [][(/\ pc = "curate_loop"
        /\ queue # <<>>
        /\ queue' = Tail(queue)
        /\ sources[Head(queue)].catalog # "units")
          => /\ sources'[Head(queue)].status = "curated"
             /\ links' = links]_vars

\* the items of the transcription that are the text of a segment
TranscribedItems ==
    {k \in 1..Len(stt.transcripts) : stt.transcripts[k][1] = "text"}

\* C37: a video Source acquired through speech-to-text is stored as fetched
\* only if at least one audio segment was transcribed; when every segment
\* fails it is recorded as error, never as fetched with content made up of
\* failure markers only
C37_Original ==
    (video.pc = "done" /\ stt.pc = "returned")
      => /\ video.stored.status = "fetched" => TranscribedItems # {}
         /\ TranscribedItems = {} => video.stored.status = "error"

====
